---------------------------- MODULE Spec2Model ----------------------------
(***************************************************************************)
(* Prime Tower Clocks: the number-theoretic engine (CRT, primality,        *)
(* smoothness, Pohlig-Hellman discrete logarithm, tower signatures) and    *)
(* the PTC-bin container (tower dictionaries, delta-encoded prime lists,   *)
(* zero bitmaps, bit-packed exponents, CRC32 per frame).                   *)
(*                                                                         *)
(* Python values are modelled as follows.                                  *)
(*   - `None` / Optional[int]  : <<>> is None, <<v>> is the value v.       *)
(*   - a raised exception      : a record with ok = FALSE and the error    *)
(*                               kind in err; ok = TRUE carries val.       *)
(*   - dict[int,int] (factors) : the sequence of <<q, exp>> pairs in       *)
(*                               insertion order (Python dicts keep it).   *)
(*   - bytes                   : a sequence of integers in 0..255.         *)
(***************************************************************************)
EXTENDS Integers, Sequences, FiniteSets, TLC

VARIABLES
    pc,             \* position of the driver of the specification in use
    inN,            \* tower: the integer N to encode
    chosen,         \* tower: the tower, a sequence of <<p, factors(p-1)>>
    sig,            \* tower: the TowerSignature built for inN over chosen
    recon,          \* tower: result of reconstruct_from_tower_signature
    exported,       \* tower: the PTCSig tower_to_ptcsig made of sig
    dlog_h,         \* dlog: the argument h of dlog_pohlig_hellman_base2
    dlog_p,         \* dlog: the argument p
    dlog_out,       \* dlog: what the call returned or raised
    nice_p,         \* classifier: the argument p of nice_prime_info
    allowed,        \* classifier: the argument smooth_primes
    nice_out,       \* classifier: what nice_prime_info returned
    in_base,        \* codec: the argument base of write_ptcbin
    in_dicts,       \* codec: the argument dicts, a sequence of TowerDict
    in_sigs,        \* codec: the argument signatures, DecodedSignature records
    disk,           \* codec: the bytes of the file at path, None before it exists
    written,        \* codec: how the write ended (ok, or the error raised)
    hit,            \* codec: the byte changed on disk (offset, part), or None
    readback,       \* codec: what read_ptcbin returned or raised
    delta_in,       \* delta: the argument primes of delta_encode_primes
    deltas_out,     \* delta: what delta_encode_primes returned
    primes_out,     \* delta: what delta_decode_primes returned for deltas_out
    jsonl,          \* pack: the signatures loaded from the paths, in order
    pack_out,       \* pack: what pack_jsonl_to_ptcbin returned or raised
    unpacked,       \* pack: the JSONL files unpack_ptcbin_to_jsonl wrote, or its error
    sel_D,          \* selection: the argument D of choose_orologi_for_digits
    sel_anchor,     \* selection: the argument anchor
    sel_smooth,     \* selection: the argument smooth_primes
    sel_range,      \* selection: the arguments <<min_p, max_p>>
    sel_out,        \* selection: what choose_orologi_for_digits returned or raised
    gen_limit,      \* generator: the argument limit of generate_nice_primes_32
    gen_prefer,     \* generator: the prefer_large of the caller's strategy
    gen_out,        \* generator: the pairs generate_nice_primes_32 yielded, in order
    cli_in,         \* cli: the parsed command line (N, anchor, preset, overrides)
    cli_strategy,   \* cli: what resolve_clock_strategy returned or raised
    cli_out,        \* cli: what compute_tower_signature returned or raised in main
    k_in,           \* kernel: the arguments of the arithmetic function called
    k_out,          \* kernel: what the call returned or raised
    k_work,         \* kernel: the local variables of a call run step by step
    registry,       \* registry: the TowerRegistry (by_key, dicts, next_id)
    calls,          \* registry: the intern calls made so far, with their outcomes
    jsonl_lines,    \* jsonl: the lines of the JSONL file given to load_signature_jsonl
    jsonl_out       \* jsonl: what load_signature_jsonl returned or raised

towerVars == <<inN, chosen, sig, recon, exported>>
dlogVars == <<dlog_h, dlog_p, dlog_out>>
niceVars == <<nice_p, allowed, nice_out>>
codecVars == <<in_base, in_dicts, in_sigs, disk, written, hit, readback>>
deltaVars == <<delta_in, deltas_out, primes_out>>
packVars == <<jsonl, pack_out, unpacked>>
selVars == <<sel_D, sel_anchor, sel_smooth, sel_range, sel_out, gen_limit, gen_prefer, gen_out>>
cliVars == <<cli_in, cli_strategy, cli_out>>
kernelVars == <<k_in, k_out, k_work>>
registryVars == <<registry, calls>>
loadVars == <<jsonl_lines, jsonl_out>>

vars == <<pc, towerVars, dlogVars, niceVars, codecVars, deltaVars, packVars, selVars,
          cliVars, kernelVars, registryVars, loadVars>>

(***************************************************************************)
(* Bounds of the model.                                                    *)
(***************************************************************************)
MaxN == 60          \* largest N encoded by the tower specification
MaxP == 19          \* largest prime taken into a tower
MaxTowerLen == 2    \* longest tower
MaxDlogP == 37      \* largest prime whose discrete logarithms are taken
MaxNiceP == 45      \* largest candidate handed to nice_prime_info
MaxDeltaP == 31     \* largest prime of a delta-encoded list
MaxDeltaLen == 3    \* longest delta-encoded list
MaxDicts == 2       \* longest dictionary list handed to write_ptcbin
MaxSigs == 2        \* longest signature list handed to write_ptcbin
MaxPaths == 3       \* longest list of paths handed to pack_jsonl_to_ptcbin
MaxD == 3           \* largest digit count handed to choose_orologi_for_digits
MaxAnchor == 13     \* largest anchor tried besides the default one
MaxSelP == 70       \* largest max_p handed to choose_orologi_for_digits
MaxCalls == 3       \* most intern calls made on one registry
MaxE == 12          \* largest absolute value handed to egcd
MaxPrimeN == 2000   \* largest n handed to is_probable_prime
MaxSmoothN == 30    \* largest n handed to factor_smooth, and most turns of its inner loop
MaxMod == 5         \* largest modulus handed to crt_many
MaxCrtLen == 3      \* longest list handed to crt_many
MaxBits == 4        \* largest bit length a summary line carries
MaxLines == 2        \* most lines of a JSONL file after its first
MaxLimit == 3        \* largest limit tried besides the default one
MaxGenP == 40        \* largest max_p handed to generate_nice_primes_32

(***************************************************************************)
(* Program constants.                                                      *)
(***************************************************************************)
DEFAULT_ANCHOR == 61
DEFAULT_SMOOTH_PRIMES == <<2, 3, 5, 7, 11, 13>>
POOL_LIMIT == 5000      \* limit=5000 in choose_orologi_for_digits

(***************************************************************************)
(* Generic helpers.                                                        *)
(***************************************************************************)
Ok(v) == [ok |-> TRUE, val |-> v, err |-> ""]
Err(e) == [ok |-> FALSE, val |-> <<>>, err |-> e]

None == <<>>
Some(v) == <<v>>

\* `v = <expression>` followed by the statements F that use v
With(v, F(_)) == F(v)

\* a call that may raise, followed by the statements F that use its value:
\* an exception leaves the function at once
Try(r, F(_)) == IF r.ok THEN F(r.val) ELSE r

RECURSIVE Pow(_, _)
Pow(b, e) == IF e = 0 THEN 1 ELSE b * Pow(b, e - 1)

RECURSIVE SeqProd(_)
SeqProd(s) == IF s = <<>> THEN 1 ELSE Head(s) * SeqProd(Tail(s))

Range(s) == {s[i] : i \in DOMAIN s}

\* Python's % and // (floor semantics, sign of the divisor).
PyMod(a, b) == IF b > 0 THEN a % b ELSE -((-a) % (-b))
PyDiv(a, b) == IF b > 0 THEN a \div b ELSE (-a) \div (-b)

Abs(a) == IF a >= 0 THEN a ELSE -a

\* math.gcd
RECURSIVE Gcd(_, _)
Gcd(a, b) == IF b = 0 THEN Abs(a) ELSE Gcd(b, PyMod(a, b))

\* pow(b, e, m) for e >= 0, m > 0: square and multiply
RECURSIVE ModPow(_, _, _)
ModPow(b, e, m) ==
    IF e = 0 THEN 1 % m
    ELSE LET half == ModPow(b, e \div 2, m)
             sq == (half * half) % m
         IN  IF e % 2 = 1 THEN (sq * (b % m)) % m ELSE sq

(***************************************************************************)
(* Modular arithmetic kernel (prime_tower_clocks.py).                      *)
(***************************************************************************)
\* mutant of egcd: the base case returns the coefficient 1 whatever the sign of a
RECURSIVE egcd_unsigned(_, _)
egcd_unsigned(a, b) ==
    IF b = 0 THEN <<Abs(a), 1, 0>>
    ELSE LET r == egcd_unsigned(b, PyMod(a, b))
         IN  <<r[1], r[3], r[2] - PyDiv(a, b) * r[3]>>

RECURSIVE egcd(_, _)
egcd(a, b) ==
    IF b = 0 THEN <<Abs(a), IF a >= 0 THEN 1 ELSE -1, 0>>
    ELSE LET r == egcd(b, PyMod(a, b))
         IN  <<r[1], r[3], r[2] - PyDiv(a, b) * r[3]>>

modinv(a, m) ==
    With(egcd(PyMod(a, m), m),
         LAMBDA r : IF r[1] # 1 THEN Err("NotInvertible") ELSE Ok(PyMod(r[2], m)))

\* mutant of crt_pair: the step t is taken without the inverse of m1 mod m2
crt_pair_no_inverse(a1, m1, a2, m2) ==
    IF m1 <= 0 \/ m2 <= 0 THEN Err("ModuliNotPositive")
    ELSE IF Gcd(m1, m2) # 1 THEN Err("ModuliNotCoprime")
    ELSE LET t == PyMod(a2 - a1, m2)
             x == a1 + m1 * t
         IN  Ok(<<x % (m1 * m2), m1 * m2>>)

crt_pair(a1, m1, a2, m2) ==
    IF m1 <= 0 \/ m2 <= 0 THEN Err("ModuliNotPositive")
    ELSE IF Gcd(m1, m2) # 1 THEN Err("ModuliNotCoprime")
    ELSE Try(modinv(PyMod(m1, m2), m2),
             LAMBDA inv :
                 LET t == (PyMod(a2 - a1, m2) * inv) % m2
                     x == a1 + m1 * t
                 IN  Ok(<<x % (m1 * m2), m1 * m2>>))

\* the fold of crt_many from position i on, (x, m) being the running pair
RECURSIVE crt_fold(_, _, _, _, _)
crt_fold(residues, moduli, i, x, m) ==
    IF i > Len(residues) \/ i > Len(moduli) THEN Ok(<<x, m>>)
    ELSE Try(crt_pair(x, m, PyMod(residues[i], moduli[i]), moduli[i]),
             LAMBDA xm : crt_fold(residues, moduli, i + 1, xm[1], xm[2]))

\* mutant of crt_many: lists of different lengths are folded up to the shorter
crt_many_zip_only(residues, moduli) ==
    IF Len(residues) = 0 \/ Len(moduli) = 0 THEN Err("IndexError")
    ELSE IF moduli[1] = 0 THEN Err("ZeroDivisionError")
    ELSE crt_fold(residues, moduli, 2, PyMod(residues[1], moduli[1]), moduli[1])

crt_many(residues, moduli) ==
    IF Len(residues) # Len(moduli) THEN Err("LengthMismatch")
    ELSE IF Len(residues) = 0 THEN Err("IndexError")
    ELSE IF moduli[1] = 0 THEN Err("ZeroDivisionError")
    ELSE crt_fold(residues, moduli, 2, PyMod(residues[1], moduli[1]), moduli[1])

(***************************************************************************)
(* Primality (Miller-Rabin with fixed bases).                              *)
(***************************************************************************)
RECURSIVE mr_decompose_from(_, _)
mr_decompose_from(d, s) ==
    IF d % 2 = 0 THEN mr_decompose_from(d \div 2, s + 1) ELSE <<d, s>>

\* n - 1 = d * 2^s with d odd (n >= 2)
mr_decompose(n) == mr_decompose_from(n - 1, 0)

MR_SMALL == <<2, 3, 5, 7, 11, 13, 17, 19, 23, 29, 31, 37>>
MR_BASES == <<2, 325, 9375, 28178, 450775, 9780504, 1795265022>>

\* mutant of mr_small_loop: divisibility is tested before equality
RECURSIVE mr_small_loop_divides_first(_, _)
mr_small_loop_divides_first(n, i) ==
    IF i > Len(MR_SMALL) THEN "continue"
    ELSE IF n % MR_SMALL[i] = 0 THEN "composite"
    ELSE IF n = MR_SMALL[i] THEN "prime"
    ELSE mr_small_loop_divides_first(n, i + 1)

\* the trial division loop: "prime", "composite" or "continue"
RECURSIVE mr_small_loop(_, _)
mr_small_loop(n, i) ==
    IF i > Len(MR_SMALL) THEN "continue"
    ELSE IF n = MR_SMALL[i] THEN "prime"
    ELSE IF n % MR_SMALL[i] = 0 THEN "composite"
    ELSE mr_small_loop(n, i + 1)

\* the squaring loop `for _ in range(s - 1)`: TRUE iff some square is n - 1
RECURSIVE mr_square_loop(_, _, _)
mr_square_loop(x, n, rounds) ==
    IF rounds <= 0 THEN FALSE
    ELSE LET x2 == (x * x) % n
         IN  IF x2 = n - 1 THEN TRUE ELSE mr_square_loop(x2, n, rounds - 1)

\* the loop over the bases from position i on: TRUE iff no base is a witness
RECURSIVE mr_bases_loop(_, _, _, _)
mr_bases_loop(n, d, s, i) ==
    IF i > Len(MR_BASES) THEN TRUE
    ELSE LET a == MR_BASES[i] % n
         IN  IF a = 0 THEN mr_bases_loop(n, d, s, i + 1)
             ELSE LET x == ModPow(a, d, n)
                  IN  IF x = 1 \/ x = n - 1 THEN mr_bases_loop(n, d, s, i + 1)
                      ELSE IF mr_square_loop(x, n, s - 1)
                           THEN mr_bases_loop(n, d, s, i + 1)
                           ELSE FALSE

is_probable_prime(n) ==
    IF n < 2 THEN FALSE
    ELSE With(mr_small_loop(n, 1),
              LAMBDA small :
                  IF small = "prime" THEN TRUE
                  ELSE IF small = "composite" THEN FALSE
                  ELSE With(mr_decompose(n),
                            LAMBDA ds : mr_bases_loop(n, ds[1], ds[2], 1)))

(***************************************************************************)
(* Smoothness and nice primes.                                             *)
(***************************************************************************)
\* the inner `while n % p == 0` loop: how often p divides n (n >= 1, p >= 2)
RECURSIVE Multiplicity(_, _)
Multiplicity(n, p) == IF n % p = 0 THEN 1 + Multiplicity(n \div p, p) ELSE 0

\* the loop of factor_smooth from position i on; f is the dict built so far
RECURSIVE factor_smooth_from(_, _, _, _)
factor_smooth_from(n, primes, i, f) ==
    IF i > Len(primes) THEN <<f, n>>
    ELSE IF n = 1 THEN <<f, n>>
    ELSE LET p == primes[i]
         IN  IF n % p = 0
             THEN LET e == Multiplicity(n, p)
                  IN  factor_smooth_from(n \div Pow(p, e), primes, i + 1,
                                         Append(f, <<p, e>>))
             ELSE factor_smooth_from(n, primes, i + 1, f)

\* factor_smooth(n, primes) -> <<factors, remainder>>, for n >= 1
factor_smooth(n, primes) == factor_smooth_from(n, primes, 1, <<>>)

\* mutant of is_primitive_root_2: the exponent is (p-1)/q^exp, not (p-1)/q
is_primitive_root_2_prime_power(p, factors_p_minus_1) ==
    IF p <= 2 THEN FALSE
    ELSE \A i \in DOMAIN factors_p_minus_1 :
             ModPow(2, (p - 1) \div Pow(factors_p_minus_1[i][1],
                                        factors_p_minus_1[i][2]), p) # 1

is_primitive_root_2(p, factors_p_minus_1) ==
    IF p <= 2 THEN FALSE
    ELSE \A i \in DOMAIN factors_p_minus_1 :
             ModPow(2, (p - 1) \div factors_p_minus_1[i][1], p) # 1

\* nice_prime_info: Some(factors) when p is nice, None otherwise
nice_prime_info(p, smooth_primes) ==
    IF ~is_probable_prime(p) THEN None
    ELSE With(factor_smooth(p - 1, smooth_primes),
              LAMBDA fr :
                  IF fr[2] # 1 THEN None
                  ELSE IF ~is_primitive_root_2(p, fr[1]) THEN None
                  ELSE Some(fr[1]))

(***************************************************************************)
(* Generation of nice primes and selection of a tower.                     *)
(***************************************************************************)
\* fac.pop(p, None) on a dict held as a sequence of <<key, value>>
FacPop(fac, p) == SelectSeq(fac, LAMBDA kv : kv[1] # p)

\* fac[p] = e: the value is replaced in place, a new key goes last
FacSet(fac, p, e) ==
    IF \E n \in DOMAIN fac : fac[n][1] = p
    THEN [n \in DOMAIN fac |-> IF fac[n][1] = p THEN <<p, e>> ELSE fac[n]]
    ELSE Append(fac, <<p, e>>)

\* rec(i, cur, fac) of _gen_smooth_ms_in_range, and the while loop of rec from
\* exponent e on (v = cur * p^e): the items appended to yield_items, and the
\* dict fac as the call leaves it
RECURSIVE smooth_rec(_, _, _, _, _, _), smooth_while(_, _, _, _, _, _, _)
smooth_rec(primes, min_m, max_m, i, cur, fac) ==
    IF cur > max_m THEN [items |-> <<>>, fac |-> fac]
    ELSE IF i = Len(primes)
    THEN [items |-> IF min_m <= cur THEN <<<<cur, fac>>>> ELSE <<>>, fac |-> fac]
    ELSE With(smooth_while(primes, min_m, max_m, i, 0, cur, fac), LAMBDA r :
            [items |-> r.items, fac |-> FacPop(r.fac, primes[i + 1])])

smooth_while(primes, min_m, max_m, i, e, v, fac) ==
    IF v > max_m THEN [items |-> <<>>, fac |-> fac]
    ELSE With(smooth_rec(primes, min_m, max_m, i + 1, v,
                         IF e > 0 THEN FacSet(fac, primes[i + 1], e)
                         ELSE FacPop(fac, primes[i + 1])),
              LAMBDA r1 :
            With(smooth_while(primes, min_m, max_m, i, e + 1, v * primes[i + 1], r1.fac),
                 LAMBDA r2 : [items |-> r1.items \o r2.items, fac |-> r2.fac]))

\* yield_items.sort(key=lambda t: t[0], reverse=True): stable, largest m first
RECURSIVE SortByMDesc(_)
SortByMDesc(items) ==
    IF items = <<>> THEN <<>>
    ELSE LET t == items[Len(items)]
             front == SortByMDesc(SubSeq(items, 1, Len(items) - 1))
         IN  SelectSeq(front, LAMBDA x : x[1] >= t[1]) \o <<t>>
                 \o SelectSeq(front, LAMBDA x : x[1] < t[1])

\* mutant of _gen_smooth_ms_in_range: the lower end of the range is left out
_gen_smooth_ms_in_range_open(primes, min_m, max_m) ==
    SortByMDesc(smooth_rec(primes, min_m + 1, max_m, 0, 1, <<>>).items)

\* _gen_smooth_ms_in_range(primes, min_m, max_m): the items yielded, in order
_gen_smooth_ms_in_range(primes, min_m, max_m) ==
    SortByMDesc(smooth_rec(primes, min_m, max_m, 0, 1, <<>>).items)

\* the for loop of generate_nice_primes_32 from item n on
RECURSIVE nice_primes_loop(_, _, _, _)
nice_primes_loop(items, n, found, limit) ==
    IF n > Len(items) THEN <<>>
    ELSE IF ~is_probable_prime(items[n][1] + 1)
    THEN nice_primes_loop(items, n + 1, found, limit)
    ELSE IF ~is_primitive_root_2(items[n][1] + 1, items[n][2])
    THEN nice_primes_loop(items, n + 1, found, limit)
    ELSE IF found + 1 >= limit THEN <<<<items[n][1] + 1, items[n][2]>>>>
    ELSE <<<<items[n][1] + 1, items[n][2]>>>>
             \o nice_primes_loop(items, n + 1, found + 1, limit)

\* generate_nice_primes_32(smooth_primes, min_p, max_p, limit): the pairs
\* <<p, factors(p-1)>> yielded, in order
generate_nice_primes_32(smooth_primes, min_p, max_p, limit) ==
    nice_primes_loop(
        _gen_smooth_ms_in_range(smooth_primes,
                                IF min_p - 1 > 1 THEN min_p - 1 ELSE 1, max_p - 1),
        1, 0, limit)

\* mutant of choose_loop_reusing: a prime already used is taken again
RECURSIVE choose_loop_reusing(_, _, _, _, _)
choose_loop_reusing(pool, n, ch, M, target) ==
    IF n > Len(pool) THEN Err("InsufficientPrimePool")
    ELSE IF M * pool[n][1] > target THEN Ok(Append(ch, pool[n]))
    ELSE choose_loop_reusing(pool, n + 1, Append(ch, pool[n]), M * pool[n][1], target)

\* the for loop of choose_orologi_for_digits from pool entry n on
RECURSIVE choose_loop(_, _, _, _, _)
choose_loop(pool, n, ch, M, target) ==
    IF n > Len(pool) THEN Err("InsufficientPrimePool")
    ELSE IF \E k \in DOMAIN ch : ch[k][1] = pool[n][1]
    THEN choose_loop(pool, n + 1, ch, M, target)
    ELSE IF M * pool[n][1] > target THEN Ok(Append(ch, pool[n]))
    ELSE choose_loop(pool, n + 1, Append(ch, pool[n]), M * pool[n][1], target)

choose_orologi_for_digits(D, anchor, smooth_primes, min_p, max_p) ==
    IF D <= 0 THEN Err("DNotPositive")
    ELSE With(nice_prime_info(anchor, smooth_primes), LAMBDA anchor_f :
            IF anchor_f = None THEN Err("AnchorNotNice")
            ELSE choose_loop(generate_nice_primes_32(smooth_primes, min_p, max_p, POOL_LIMIT),
                             1, <<<<anchor, anchor_f[1]>>>>, anchor, Pow(10, D)))

(***************************************************************************)
(* Discrete logarithm (Pohlig-Hellman, base 2).                            *)
(***************************************************************************)
\* `for cand in range(q)`: the first cand with d^cand = c, None if there is none
RECURSIVE dlog_find_digit(_, _, _, _, _, _)
dlog_find_digit(cand, cur, c, d, q, p) ==
    IF cand >= q THEN None
    ELSE IF cur = c THEN Some(cand)
    ELSE dlog_find_digit(cand + 1, (cur * d) % p, c, d, q, p)

\* mutant of dlog_lift: the digit a_k is added without its weight q^k
RECURSIVE dlog_lift_unweighted(_, _, _, _, _, _, _, _)
dlog_lift_unweighted(k, x, g, h, d, p, q, exp) ==
    IF k >= exp THEN Ok(x)
    ELSE Try(modinv(ModPow(g, x, p), p),
             LAMBDA inv_gx :
                 With(dlog_find_digit(0, 1,
                          ModPow((h * inv_gx) % p, Pow(q, exp - 1 - k), p), d, q, p),
                      LAMBDA a_k :
                          IF a_k = None THEN Err("LiftingFailed")
                          ELSE dlog_lift_unweighted(k + 1, x + a_k[1],
                                                    g, h, d, p, q, exp)))

\* `for k in range(exp)` from round k on, x being the digits found so far
RECURSIVE dlog_lift(_, _, _, _, _, _, _, _)
dlog_lift(k, x, g, h, d, p, q, exp) ==
    IF k >= exp THEN Ok(x)
    ELSE Try(modinv(ModPow(g, x, p), p),
             LAMBDA inv_gx :
                 With(dlog_find_digit(0, 1,
                          ModPow((h * inv_gx) % p, Pow(q, exp - 1 - k), p), d, q, p),
                      LAMBDA a_k :
                          IF a_k = None THEN Err("LiftingFailed")
                          ELSE dlog_lift(k + 1, x + a_k[1] * Pow(q, k),
                                         g, h, d, p, q, exp)))

dlog_prime_power(g, h, p, q, exp) ==
    IF exp <= 0 THEN Err("ExpNotPositive")
    ELSE IF g % p = 0 \/ h % p = 0 THEN Err("ZeroNotInGroup")
    ELSE Try(dlog_lift(0, 0, g % p, h % p,
                       ModPow(g % p, Pow(q, exp - 1), p), p, q, exp),
             LAMBDA x : Ok(x % Pow(q, exp)))

\* the loop over factors_p_minus_1.items() from position i on
RECURSIVE dlog_congruences(_, _, _, _, _, _)
dlog_congruences(h, p, factors, i, congr_a, congr_m) ==
    IF i > Len(factors) THEN Ok(<<congr_a, congr_m>>)
    ELSE LET q == factors[i][1]
             exp == factors[i][2]
             m_i == Pow(q, exp)
             g_i == ModPow(2, (p - 1) \div m_i, p)
             h_i == ModPow(h, (p - 1) \div m_i, p)
         IN  Try(dlog_prime_power(g_i, h_i, p, q, exp),
                 LAMBDA x_i :
                     dlog_congruences(h, p, factors, i + 1,
                                      Append(congr_a, x_i), Append(congr_m, m_i)))

dlog_pohlig_hellman_base2(h, p, factors_p_minus_1) ==
    IF h % p = 0 THEN Err("ZeroHasNoLog")
    ELSE Try(dlog_congruences(h % p, p, factors_p_minus_1, 1, <<>>, <<>>),
             LAMBDA cs :
                 Try(crt_many(cs[1], cs[2]),
                     LAMBDA xm : Ok(xm[1] % (p - 1))))

(***************************************************************************)
(* Tower signatures.                                                       *)
(***************************************************************************)
Firma(p, r, e, phi, factors) ==
    [p |-> p, r |-> r, e |-> e, phi |-> phi, factors |-> factors]

\* len(str(N)) if N != 0 else 1
RECURSIVE Digits(_)
Digits(n) == IF n < 10 THEN 1 ELSE 1 + Digits(n \div 10)

\* mutant of signature_loop: the zero marker is recorded for r <= 1
RECURSIVE signature_loop_small_r(_, _, _, _)
signature_loop_small_r(n, ch, i, firme) ==
    IF i > Len(ch) THEN Ok(firme)
    ELSE LET p == ch[i][1]
             fac == ch[i][2]
             r == n % p
         IN  IF r <= 1
             THEN signature_loop_small_r(n, ch, i + 1,
                                 Append(firme, Firma(p, 0, None, p - 1, fac)))
             ELSE Try(dlog_pohlig_hellman_base2(r, p, fac),
                      LAMBDA e :
                          signature_loop_small_r(n, ch, i + 1,
                              Append(firme, Firma(p, r, Some(e), p - 1, fac))))

\* the loop `for p, fac in chosen` of compute_tower_signature from position i
RECURSIVE signature_loop(_, _, _, _)
signature_loop(n, ch, i, firme) ==
    IF i > Len(ch) THEN Ok(firme)
    ELSE LET p == ch[i][1]
             fac == ch[i][2]
             r == n % p
         IN  IF r = 0
             THEN signature_loop(n, ch, i + 1,
                                 Append(firme, Firma(p, 0, None, p - 1, fac)))
             ELSE Try(dlog_pohlig_hellman_base2(r, p, fac),
                      LAMBDA e :
                          signature_loop(n, ch, i + 1,
                              Append(firme, Firma(p, r, Some(e), p - 1, fac))))

\* compute_tower_signature once the tower `ch` has been chosen
build_signature(n, ch) ==
    IF n < 0 THEN Err("NegativeInput")
    ELSE Try(signature_loop(n, ch, 1, <<>>),
             LAMBDA firme :
                 Ok([N |-> n, D |-> Digits(n),
                     orologi |-> [i \in DOMAIN ch |-> ch[i][1]],
                     firme |-> firme,
                     M |-> SeqProd([i \in DOMAIN ch |-> ch[i][1]])]))

\* mutant of residues: a clock without exponent is read as e = 0
residues_none_as_zero_exponent(s) ==
    [i \in DOMAIN s.firme |->
        IF s.firme[i].e = None THEN ModPow(2, 0, s.firme[i].p)
        ELSE ModPow(2, s.firme[i].e[1], s.firme[i].p)]

\* TowerSignature.residues
residues(s) ==
    [i \in DOMAIN s.firme |->
        IF s.firme[i].e = None THEN 0
        ELSE ModPow(2, s.firme[i].e[1], s.firme[i].p)]

reconstruct_from_tower_signature(s) == crt_many(residues(s), s.orologi)

(***************************************************************************)
(* Tower specification: a signature is built for N over a tower of         *)
(* pairwise distinct nice primes, then reconstructed.                      *)
(***************************************************************************)
NicePrimes == {p \in 3..MaxP : nice_prime_info(p, DEFAULT_SMOOTH_PRIMES) # None}

\* sequences without repetition over S, of length 1..n
RECURSIVE InjSeqs(_, _)
InjSeqs(S, n) ==
    IF n = 0 THEN {}
    ELSE LET shorter == InjSeqs(S, n - 1)
         IN  {<<x>> : x \in S} \cup shorter
             \cup UNION {{Append(s, x) : x \in S \ Range(s)} : s \in shorter}

Towers == InjSeqs(NicePrimes, MaxTowerLen)

WithFactors(t) == [i \in DOMAIN t |-> <<t[i], nice_prime_info(t[i], DEFAULT_SMOOTH_PRIMES)[1]>>]

\* the parts of the state a specification over part g does not use stay idle
IdleExcept(g) ==
    /\ IF g = "tower" THEN TRUE
       ELSE /\ inN = 0 /\ chosen = <<>> /\ sig = Err("none") /\ recon = Err("none")
            /\ exported = Err("none")
    /\ IF g = "dlog" THEN TRUE
       ELSE dlog_h = 0 /\ dlog_p = 0 /\ dlog_out = Err("none")
    /\ IF g = "nice" THEN TRUE
       ELSE nice_p = 0 /\ allowed = <<>> /\ nice_out = None
    /\ IF g \in {"codec", "pack", "dicts"} THEN TRUE
       ELSE /\ in_base = 0 /\ in_dicts = <<>> /\ in_sigs = <<>> /\ disk = None
            /\ written = Err("none") /\ hit = None /\ readback = Err("none")
    /\ IF g = "delta" THEN TRUE
       ELSE delta_in = <<>> /\ deltas_out = Err("none") /\ primes_out = Err("none")
    /\ IF g = "pack" THEN TRUE
       ELSE jsonl = <<>> /\ pack_out = Err("none") /\ unpacked = Err("none")
    /\ IF g = "sel" THEN TRUE
       ELSE /\ sel_D = 0 /\ sel_anchor = 0 /\ sel_smooth = <<>> /\ sel_range = <<0, 0>>
            /\ sel_out = Err("none")
            /\ gen_limit = 0 /\ gen_prefer = FALSE /\ gen_out = Err("none")
    /\ IF g = "cli" THEN TRUE
       ELSE cli_in = <<>> /\ cli_strategy = Err("none") /\ cli_out = Err("none")
    /\ IF g = "kernel" THEN TRUE
       ELSE k_in = <<>> /\ k_out = Err("none") /\ k_work = <<>>
    /\ IF g \in {"registry", "dicts"} THEN TRUE
       ELSE registry = <<>> /\ calls = <<>>
    /\ IF g = "load" THEN TRUE
       ELSE jsonl_lines = <<>> /\ jsonl_out = Err("none")

\* an operation of part g leaves the other parts alone
Frame(g) ==
    /\ IF g = "tower" THEN TRUE ELSE UNCHANGED towerVars
    /\ IF g = "dlog" THEN TRUE ELSE UNCHANGED dlogVars
    /\ IF g = "nice" THEN TRUE ELSE UNCHANGED niceVars
    /\ IF g = "codec" THEN TRUE ELSE UNCHANGED codecVars
    /\ IF g = "delta" THEN TRUE ELSE UNCHANGED deltaVars
    /\ IF g = "pack" THEN TRUE ELSE UNCHANGED packVars
    /\ IF g = "sel" THEN TRUE ELSE UNCHANGED selVars
    /\ IF g = "cli" THEN TRUE ELSE UNCHANGED cliVars
    /\ IF g = "kernel" THEN TRUE ELSE UNCHANGED kernelVars
    /\ IF g = "registry" THEN TRUE ELSE UNCHANGED registryVars
    /\ IF g = "load" THEN TRUE ELSE UNCHANGED loadVars

TowerInit ==
    /\ pc = "start"
    /\ inN \in 0..MaxN
    /\ chosen \in {WithFactors(t) : t \in Towers}
    /\ sig = Err("none")
    /\ recon = Err("none")
    /\ exported = Err("none")
    /\ IdleExcept("tower")

BuildSignature ==
    /\ pc = "start"
    /\ sig' = build_signature(inN, chosen)
    /\ pc' = IF sig'.ok THEN "built" ELSE "failed"
    /\ UNCHANGED <<inN, chosen, recon, exported>> /\ Frame("tower")

Reconstruct ==
    /\ pc = "built"
    /\ recon' = reconstruct_from_tower_signature(sig.val)
    /\ pc' = "reconstructed"
    /\ UNCHANGED <<inN, chosen, sig, exported>> /\ Frame("tower")

TowerNext == BuildSignature \/ Reconstruct

Spec == TowerInit /\ [][TowerNext]_vars

\* the product of the tower's primes, computed from the input tower
TowerM == SeqProd([i \in DOMAIN chosen |-> chosen[i][1]])

\* 2^x mod p by x doublings
RECURSIVE Pow2Mod(_, _)
Pow2Mod(x, p) == IF x = 0 THEN 1 % p ELSE (2 * Pow2Mod(x - 1, p)) % p

\* C1: round trip under sufficiency. For every N >= 0 and every tower of
\* pairwise distinct nice primes with product M > N, the signature is built
\* without error and reconstruct_from_tower_signature returns exactly (N, M).
C1_RoundTripSufficient ==
    TowerM > inN =>
        /\ pc # "failed"
        /\ pc = "reconstructed" => recon.ok /\ recon.val = <<inN, TowerM>>

C1_Witness ==
    /\ pc = "reconstructed"
    /\ Len(chosen) = 2
    /\ inN > chosen[1][1] /\ inN > chosen[2][1] /\ TowerM > inN
    /\ recon.ok /\ recon.val[1] = inN

\* C2: congruence under insufficiency. For every tower with product M <= N
\* the reconstruction returns (N mod M, M), and for any tower the returned
\* value lies in [0, M).
C2_CongruenceInsufficient ==
    pc = "reconstructed" =>
        /\ recon.ok
        /\ recon.val[1] >= 0 /\ recon.val[1] < recon.val[2]
        /\ TowerM <= inN => recon.val = <<inN % TowerM, TowerM>>

C2_Witness ==
    /\ pc = "reconstructed"
    /\ Len(chosen) = 2
    /\ TowerM < inN
    /\ recon.ok /\ recon.val[1] = inN % TowerM /\ recon.val[1] # inN

\* the two forms of a clock of the built signature
IsZeroMarker(f) == f.r = 0 /\ f.e = None
IsExponentClock(f, n) ==
    /\ f.e # None /\ Len(f.e) = 1
    /\ f.r = n % f.p /\ f.r # 0
    /\ f.e[1] >= 0 /\ f.e[1] < f.p - 1
    /\ Pow2Mod(f.e[1], f.p) = n % f.p

\* C3: zero-marker correctness. In the signature built for N, the clock of p
\* is a zero marker (r = 0, no exponent) iff p divides N; otherwise it carries
\* e with 0 <= e < p-1 and 2^e mod p = N mod p; exactly one form holds.
C3_ZeroMarker ==
    /\ pc # "failed"
    /\ pc \in {"built", "reconstructed"} =>
         /\ Len(sig.val.firme) = Len(chosen)
         /\ \A i \in DOMAIN chosen :
              LET f == sig.val.firme[i]
              IN  /\ f.p = chosen[i][1]
                  /\ IsZeroMarker(f) <=> inN % f.p = 0
                  /\ IsZeroMarker(f) # IsExponentClock(f, inN)

C3_Witness ==
    /\ pc = "built"
    /\ Len(chosen) = 2
    /\ inN > 0
    /\ IsZeroMarker(sig.val.firme[1])
    /\ IsExponentClock(sig.val.firme[2], inN)

(***************************************************************************)
(* Discrete-log specification: one call of dlog_pohlig_hellman_base2 for a *)
(* nice prime p, the factorization of p-1 that nice_prime_info returns,    *)
(* and any h in 0..2p-1.                                                   *)
(***************************************************************************)
DlogPrimes == {p \in 3..MaxDlogP : nice_prime_info(p, DEFAULT_SMOOTH_PRIMES) # None}

DlogInit ==
    /\ pc = "start"
    /\ dlog_p \in DlogPrimes
    /\ dlog_h \in 0..(2 * dlog_p - 1)
    /\ dlog_out = Err("none")
    /\ IdleExcept("dlog")

DlogCall ==
    /\ pc = "start"
    /\ dlog_out' = dlog_pohlig_hellman_base2(dlog_h, dlog_p,
                        nice_prime_info(dlog_p, DEFAULT_SMOOTH_PRIMES)[1])
    /\ pc' = "called"
    /\ UNCHANGED <<dlog_h, dlog_p>> /\ Frame("dlog")

DlogSpec == DlogInit /\ [][DlogCall]_vars

\* C4: discrete-log correctness. For a nice prime p and h not divisible by p
\* the call returns x with 0 <= x < p-1 and 2^x mod p = h mod p (the lifting
\* never fails); for h divisible by p it fails with the zero-has-no-log error.
C4_DlogCorrect ==
    pc = "called" =>
        IF dlog_h % dlog_p = 0
        THEN ~dlog_out.ok /\ dlog_out.err = "ZeroHasNoLog"
        ELSE /\ dlog_out.ok
             /\ dlog_out.val >= 0 /\ dlog_out.val < dlog_p - 1
             /\ Pow2Mod(dlog_out.val, dlog_p) = dlog_h % dlog_p

C4_Witness ==
    /\ pc = "called"
    /\ dlog_p = 37 /\ dlog_h = 5
    /\ dlog_out.ok /\ dlog_out.val > 2

(***************************************************************************)
(* Classifier specification: one call of nice_prime_info(p, allowed) *)
(* for a candidate p and a list of distinct small primes.                  *)
(***************************************************************************)
\* the sub-lists of s (order kept)
RECURSIVE SubLists(_)
SubLists(s) ==
    IF s = <<>> THEN {<<>>}
    ELSE LET rest == SubLists(Tail(s))
         IN  rest \cup {<<Head(s)>> \o t : t \in rest}

SmoothChoices == SubLists(DEFAULT_SMOOTH_PRIMES)

NiceInit ==
    /\ pc = "start"
    /\ nice_p \in 0..MaxNiceP
    /\ allowed \in SmoothChoices
    /\ nice_out = None
    /\ IdleExcept("nice")

NiceCall ==
    /\ pc = "start"
    /\ nice_out' = nice_prime_info(nice_p, allowed)
    /\ pc' = "called"
    /\ UNCHANGED <<nice_p, allowed>> /\ Frame("nice")

NiceSpec == NiceInit /\ [][NiceCall]_vars

\* the mathematical notions, independent of the program's procedures
IsPrime(n) == n >= 2 /\ \A d \in 2..(n - 1) : n % d # 0
PrimeFactors(n) == {d \in 2..n : IsPrime(d) /\ n % d = 0}
\* the multiplicative order of 2 modulo an odd p >= 3
OrderOf2(p) == CHOOSE k \in 1..(p - 1) :
                   /\ Pow2Mod(k, p) = 1
                   /\ \A j \in 1..(k - 1) : Pow2Mod(j, p) # 1
IsNice(p, small_primes) ==
    /\ IsPrime(p)
    /\ PrimeFactors(p - 1) \subseteq Range(small_primes)
    /\ p >= 3 /\ OrderOf2(p) = p - 1

RECURSIVE FactorProduct(_)
FactorProduct(f) ==
    IF f = <<>> THEN 1 ELSE Pow(Head(f)[1], Head(f)[2]) * FactorProduct(Tail(f))

\* C5: niceness classification soundness. nice_prime_info(p, allowed) returns
\* a factorization only if p is prime, p-1 factors completely over allowed
\* (the product of q^exp over the returned map is p-1), and 2^((p-1)/q) mod p
\* # 1 for every prime factor q of p-1 (2 has order p-1); else "not nice".
C5_NiceSound ==
    pc = "called" =>
        /\ nice_out # None <=> IsNice(nice_p, allowed)
        /\ nice_out # None =>
             /\ FactorProduct(nice_out[1]) = nice_p - 1
             /\ \A i \in DOMAIN nice_out[1] :
                    /\ nice_out[1][i][1] \in Range(allowed)
                    /\ nice_out[1][i][2] >= 1
             /\ {nice_out[1][i][1] : i \in DOMAIN nice_out[1]} = PrimeFactors(nice_p - 1)
             /\ \A q \in PrimeFactors(nice_p - 1) :
                    Pow2Mod((nice_p - 1) \div q, nice_p) # 1

C5_Witness ==
    /\ pc = "called"
    /\ nice_p = 37 /\ allowed = <<2, 3>>
    /\ nice_out = Some(<<<<2, 2>>, <<3, 2>>>>)

(***************************************************************************)
(* Tower dictionaries (tower_dict.py).                                     *)
(***************************************************************************)
IsSortedAsc(s) == \A i \in 1..(Len(s) - 1) : s[i] <= s[i + 1]

\* TowerDict(dict_id, primes), with the checks of __post_init__
TowerDict(dict_id, primes) ==
    IF dict_id <= 0 THEN Err("DictIdNotPositive")
    ELSE IF primes = <<>> THEN Err("PrimesEmpty")
    ELSE IF ~IsSortedAsc(primes) THEN Err("PrimesNotSorted")
    ELSE IF \E i \in DOMAIN primes : primes[i] < 3 THEN Err("PrimeBelow3")
    ELSE Ok([dict_id |-> dict_id, primes |-> primes])

\* mutant of delta_encode_primes: every difference is taken from the first prime
delta_encode_primes_from_first(primes) ==
    IF primes = <<>> THEN Err("EmptyPrimes")
    ELSE Ok([i \in DOMAIN primes |->
                IF i = 1 THEN primes[1] ELSE primes[i] - primes[1]])

delta_encode_primes(primes) ==
    IF primes = <<>> THEN Err("EmptyPrimes")
    ELSE Ok([i \in DOMAIN primes |->
                IF i = 1 THEN primes[1] ELSE primes[i] - primes[i - 1]])

\* the loop of delta_decode_primes from position i on, cur being the last prime
RECURSIVE delta_decode_from(_, _, _, _)
delta_decode_from(deltas, i, cur, ps) ==
    IF i > Len(deltas) THEN ps
    ELSE delta_decode_from(deltas, i + 1, cur + deltas[i], Append(ps, cur + deltas[i]))

delta_decode_primes(deltas) ==
    IF deltas = <<>> THEN Err("EmptyDeltas")
    ELSE Ok(delta_decode_from(deltas, 2, deltas[1], <<deltas[1]>>))

\* TowerRegistry(): no tuple interned, the first id to hand out is 1
TowerRegistry == [by_key |-> <<>>, dicts |-> <<>>, next_id |-> 1]

\* f[k] = v on a Python dict held as a function
DictSet(f, k, v) == [x \in (DOMAIN f) \cup {k} |-> IF x = k THEN v ELSE f[x]]

\* mutant of intern: a tuple seen before is given a new id again
intern_always_new(reg, primes) ==
    IF ~IsSortedAsc(primes) THEN [reg |-> reg, ret |-> Err("PrimesNotSorted")]
    ELSE With(TowerDict(reg.next_id, primes), LAMBDA td :
            IF ~td.ok
            THEN [reg |-> [reg EXCEPT !.next_id = reg.next_id + 1], ret |-> td]
            ELSE [reg |-> [by_key |-> DictSet(reg.by_key, primes, reg.next_id),
                           dicts |-> DictSet(reg.dicts, reg.next_id, td.val),
                           next_id |-> reg.next_id + 1],
                  ret |-> Ok(reg.next_id)])

\* TowerRegistry.intern(primes): the registry after the call, and what the call
\* returned or raised
intern(reg, primes) ==
    IF ~IsSortedAsc(primes) THEN [reg |-> reg, ret |-> Err("PrimesNotSorted")]
    ELSE IF primes \in DOMAIN reg.by_key THEN [reg |-> reg, ret |-> Ok(reg.by_key[primes])]
    ELSE With(TowerDict(reg.next_id, primes), LAMBDA td :
            IF ~td.ok
            THEN [reg |-> [reg EXCEPT !.next_id = reg.next_id + 1], ret |-> td]
            ELSE [reg |-> [by_key |-> DictSet(reg.by_key, primes, reg.next_id),
                           dicts |-> DictSet(reg.dicts, reg.next_id, td.val),
                           next_id |-> reg.next_id + 1],
                  ret |-> Ok(reg.next_id)])

\* the elements of a finite set of integers in ascending order
RECURSIVE Sorted(_)
Sorted(S) ==
    IF S = {} THEN <<>>
    ELSE LET least == CHOOSE x \in S : \A y \in S : x <= y
         IN  <<least>> \o Sorted(S \ {least})

\* TowerRegistry.all_dicts()
all_dicts(reg) == [n \in DOMAIN Sorted(DOMAIN reg.dicts) |-> reg.dicts[Sorted(DOMAIN reg.dicts)[n]]]

(***************************************************************************)
(* PTC-bin: bytes, varints, CRC32, bitmaps and bit streams (ptc_bin.py).   *)
(***************************************************************************)
MAGIC == <<80, 84, 67>>     \* b"PTC"
VERSION == 1
FRAME_TOWER_DICT == 1
FRAME_SIGNATURE == 2
FRAME_END == 127
FLAG_HAS_CRC32 == 1
FLAG_HAS_LENGTH == 2
FLAG_BITPACK_E == 4
FLAG_DELTA_P == 8

ClockRec(p, z, e) == [p |-> p, z |-> z, e |-> e]

\* PTCSig(base, clocks): the summary hints default to None
PTCSig(base, clocks) ==
    [base |-> base, clocks |-> clocks,
     M_bits |-> None, N_bits |-> None, lossless_claim |-> None]

DecodedSignature(dict_id, s) == [dict_id |-> dict_id, sig |-> s]

\* flags & FLAG for a one-bit FLAG
HasFlag(flags, flag) == (flags \div flag) % 2 = 1

\* int.bit_length for n >= 0
RECURSIVE BitLength(_)
BitLength(n) == IF n = 0 THEN 0 ELSE 1 + BitLength(n \div 2)

\* bitwise exclusive or of two non-negative integers
RECURSIVE Xor(_, _)
Xor(a, b) ==
    IF a = 0 THEN b
    ELSE IF b = 0 THEN a
    ELSE ((a + b) % 2) + (2 * Xor(a \div 2, b \div 2))

e_bit_width_for_prime(p) ==
    IF p < 3 THEN Err("PrimeBelow3") ELSE Ok(BitLength(p - 2))

pack_vb(version, base) ==
    IF ~(0 <= version /\ version <= 15) THEN Err("VersionOutOfRange")
    ELSE IF ~(0 <= base /\ base <= 15) THEN Err("BaseOutOfRange")
    ELSE Ok(((version % 16) * 16) + (base % 16))

unpack_vb(vb) == <<(vb \div 16) % 16, vb % 16>>

RECURSIVE uleb128_encode_loop(_)
uleb128_encode_loop(n) ==
    IF n \div 128 # 0 THEN <<(n % 128) + 128>> \o uleb128_encode_loop(n \div 128)
    ELSE <<n % 128>>

uleb128_encode(n) ==
    IF n < 0 THEN Err("NegativeVarint") ELSE Ok(uleb128_encode_loop(n))

\* a decoded value of 2^28 or more: larger than any file or field written
\* here, and kept at this value (the integers of the checker have 32 bits)
Huge == Pow(2, 28)

\* the loop of uleb128_decode_from; i counts the bytes consumed so far
RECURSIVE uleb128_decode_loop(_, _, _, _)
uleb128_decode_loop(data, i, n, shift) ==
    IF i >= Len(data) THEN Err("UnexpectedEOFInVarint")
    ELSE LET b == data[i + 1]
             n2 == IF shift >= 28
                   THEN (IF b % 128 = 0 THEN n ELSE Huge)
                   ELSE (IF n + ((b % 128) * Pow(2, shift)) >= Huge THEN Huge
                         ELSE n + ((b % 128) * Pow(2, shift)))
         IN  IF b < 128 THEN Ok(<<n2, i + 1>>)
             ELSE IF shift + 7 > 70 THEN Err("VarintTooLarge")
             ELSE uleb128_decode_loop(data, i + 1, n2, shift + 7)

\* uleb128_decode_from(data, offset) -> <<n, next offset>>
uleb128_decode_from(data, offset) == uleb128_decode_loop(data, offset, 0, 0)

\* CRC-32 (zlib.crc32): reflected polynomial EDB88320, initial value and final
\* exclusive or FFFFFFFF. A 32-bit value is held as <<high 16 bits, low 16 bits>>.
RECURSIVE crc_table_entry(_, _)
crc_table_entry(c, k) ==
    IF k = 0 THEN c
    ELSE LET hi == c[1] \div 2
             lo == (c[2] \div 2) + ((c[1] % 2) * 32768)
         IN  IF c[2] % 2 = 1
             THEN crc_table_entry(<<Xor(hi, 60856), Xor(lo, 33568)>>, k - 1)
             ELSE crc_table_entry(<<hi, lo>>, k - 1)

crc_table == [i \in 0..255 |-> crc_table_entry(<<0, i>>, 8)]

RECURSIVE crc32_update(_, _, _)
crc32_update(c, data, i) ==
    IF i > Len(data) THEN c
    ELSE LET t == crc_table[Xor(c[2] % 256, data[i])]
         IN  crc32_update(<<Xor(t[1], c[1] \div 256),
                            Xor(t[2], (c[2] \div 256) + ((c[1] % 256) * 256))>>,
                          data, i + 1)

\* crc32_be(data): the four checksum bytes, most significant first
crc32_be(data) ==
    With(crc32_update(<<65535, 65535>>, data, 1),
         LAMBDA c : <<(65535 - c[1]) \div 256, (65535 - c[1]) % 256,
                      (65535 - c[2]) \div 256, (65535 - c[2]) % 256>>)

\* data[a:b] of Python (0-based, b exclusive, clipped to the data)
Slice(data, a, b) ==
    IF b > Len(data) THEN SubSeq(data, a + 1, Len(data)) ELSE SubSeq(data, a + 1, b)

\* the sum of 2^b over the bit positions b of S
RECURSIVE BitsValue(_)
BitsValue(S) ==
    IF S = {} THEN 0
    ELSE LET b == CHOOSE x \in S : TRUE IN Pow(2, b) + BitsValue(S \ {b})

\* idx of _pack_z_bitmap: the (0-based) position a prime is mapped to
PrimeIndex(primes, p) ==
    (CHOOSE i \in DOMAIN primes :
        primes[i] = p /\ \A j \in DOMAIN primes : primes[j] = p => j <= i) - 1

_pack_z_bitmap(primes, clocks) ==
    IF \E n \in DOMAIN clocks : clocks[n].p \notin Range(primes)
    THEN Err("ClockNotInDict")
    ELSE Ok([j \in 1..((Len(primes) + 7) \div 8) |->
                BitsValue({b \in 0..7 :
                    \E n \in DOMAIN clocks :
                        /\ clocks[n].z
                        /\ PrimeIndex(primes, clocks[n].p) = (8 * (j - 1)) + b})])

_unpack_z_bitmap(primes, bitmap) ==
    IF Len(bitmap) # (Len(primes) + 7) \div 8 THEN Err("InvalidBitmapLength")
    ELSE Ok([i \in DOMAIN primes |->
                (bitmap[((i - 1) \div 8) + 1] \div Pow(2, (i - 1) % 8)) % 2 = 1])

\* by_p of _bitpack_es: the clock kept for prime p (the last one listed)
ClockFor(clocks, p) ==
    IF \A n \in DOMAIN clocks : clocks[n].p # p THEN None
    ELSE Some(clocks[CHOOSE n \in DOMAIN clocks :
                  clocks[n].p = p /\ \A j \in DOMAIN clocks : clocks[j].p = p => j <= n])

\* the loop of _bitpack_es from prime i on
RECURSIVE bitpack_loop(_, _, _, _, _, _)
bitpack_loop(primes, clocks, i, buf, nbits, out) ==
    IF i > Len(primes)
    THEN Ok(IF nbits # 0 THEN Append(out, buf % 256) ELSE out)
    ELSE With(ClockFor(clocks, primes[i]), LAMBDA c :
            IF c = None THEN Err("MissingClock")
            ELSE IF c[1].z THEN bitpack_loop(primes, clocks, i + 1, buf, nbits, out)
            ELSE IF c[1].e = None THEN Err("ExponentNone")
            ELSE Try(e_bit_width_for_prime(primes[i]), LAMBDA w :
                    With(buf + (PyMod(c[1].e[1], Pow(2, w)) * Pow(2, nbits)),
                         LAMBDA b2 :
                            bitpack_loop(primes, clocks, i + 1,
                                b2 \div Pow(256, (nbits + w) \div 8),
                                (nbits + w) % 8,
                                out \o [j \in 1..((nbits + w) \div 8) |->
                                           (b2 \div Pow(256, j - 1)) % 256]))))

_bitpack_es(primes, clocks) == bitpack_loop(primes, clocks, 1, 0, 0, <<>>)

\* the inner loop of _bitunpack_es: take bytes until w bits are buffered
RECURSIVE bitunpack_fill(_, _, _, _, _)
bitunpack_fill(bitstream, buf, nbits, i, w) ==
    IF nbits >= w THEN Ok(<<buf, nbits, i>>)
    ELSE IF i >= Len(bitstream) THEN Err("NotEnoughBits")
    ELSE bitunpack_fill(bitstream, buf + (bitstream[i + 1] * Pow(2, nbits)),
                        nbits + 8, i + 1, w)

\* the loop of _bitunpack_es from prime n on
RECURSIVE bitunpack_loop(_, _, _, _, _, _, _)
bitunpack_loop(primes, z_flags, bitstream, n, buf, nbits, st) ==
    IF n > Len(primes) \/ n > Len(z_flags) THEN Ok(st.es)
    ELSE IF z_flags[n]
    THEN bitunpack_loop(primes, z_flags, bitstream, n + 1, buf, nbits, st)
    ELSE Try(e_bit_width_for_prime(primes[n]), LAMBDA w :
            Try(bitunpack_fill(bitstream, buf, nbits, st.i, w), LAMBDA f :
                bitunpack_loop(primes, z_flags, bitstream, n + 1,
                    f[1] \div Pow(2, w), f[2] - w,
                    [i |-> f[3], es |-> Append(st.es, f[1] % Pow(2, w))])))

_bitunpack_es(primes, z_flags, bitstream) ==
    bitunpack_loop(primes, z_flags, bitstream, 1, 0, 0, [i |-> 0, es |-> <<>>])

\* sorted(clocks, key=lambda c: c.p): a stable sort
RECURSIVE SortByP(_)
SortByP(clocks) ==
    IF clocks = <<>> THEN <<>>
    ELSE LET c == clocks[Len(clocks)]
             front == SortByP(SubSeq(clocks, 1, Len(clocks) - 1))
         IN  SelectSeq(front, LAMBDA x : x.p <= c.p) \o <<c>>
                 \o SelectSeq(front, LAMBDA x : x.p > c.p)

\* the concatenation of a sequence of byte strings
RECURSIVE Concat(_)
Concat(parts) == IF parts = <<>> THEN <<>> ELSE Head(parts) \o Concat(Tail(parts))

\* uleb128_encode of a value the caller keeps non-negative
Varint(n) == uleb128_encode(n).val

\* the bytes _write_frame appends to the file
_write_frame(frame_type, payload, flags) ==
    With(<<frame_type>> \o Varint(Len(payload)) \o payload,
         LAMBDA blob :
            IF HasFlag(flags, FLAG_HAS_CRC32) THEN blob \o crc32_be(blob) ELSE blob)

\* the payload of a TOWER_DICT frame (write_ptcbin, first loop)
tower_dict_payload(d) ==
    Varint(d.dict_id) \o Varint(Len(d.primes))
        \o Concat([i \in DOMAIN d.primes |-> Varint(delta_encode_primes(d.primes).val[i])])

\* the payload of a SIGNATURE frame (write_ptcbin, second loop)
signature_payload(td, ds) ==
    With(SortByP(ds.sig.clocks), LAMBDA clocks :
        Try(_pack_z_bitmap(td.primes, clocks), LAMBDA z_bitmap :
            Try(_bitpack_es(td.primes, clocks), LAMBDA e_stream :
                Ok(Varint(ds.dict_id) \o z_bitmap \o e_stream))))

\* dict_map of write_ptcbin: the dictionary kept for an id (the last one listed)
DictFor(dicts, dict_id) ==
    dicts[CHOOSE i \in DOMAIN dicts :
            dicts[i].dict_id = dict_id
                /\ \A j \in DOMAIN dicts : dicts[j].dict_id = dict_id => j <= i]

\* the result of a write: the error raised, if any, and the file left on disk
\* (None when the file was never opened)
WriteResult(ok, err, file) == [ok |-> ok, err |-> err, file |-> file]

\* mutant of write_signatures: no END frame closes the stream
RECURSIVE write_signatures_no_end(_, _, _, _, _)
write_signatures_no_end(dicts, signatures, n, flags, out) ==
    IF n > Len(signatures)
    THEN WriteResult(TRUE, "", Some(out))
    ELSE With(signature_payload(DictFor(dicts, signatures[n].dict_id), signatures[n]),
              LAMBDA payload :
                IF ~payload.ok THEN WriteResult(FALSE, payload.err, Some(out))
                ELSE write_signatures_no_end(dicts, signatures, n + 1, flags,
                        out \o _write_frame(FRAME_SIGNATURE, payload.val, flags)))

\* the second loop of write_ptcbin from signature n on; out is the file so far
RECURSIVE write_signatures(_, _, _, _, _)
write_signatures(dicts, signatures, n, flags, out) ==
    IF n > Len(signatures)
    THEN WriteResult(TRUE, "", Some(out \o _write_frame(FRAME_END, <<>>, flags)))
    ELSE With(signature_payload(DictFor(dicts, signatures[n].dict_id), signatures[n]),
              LAMBDA payload :
                IF ~payload.ok THEN WriteResult(FALSE, payload.err, Some(out))
                ELSE write_signatures(dicts, signatures, n + 1, flags,
                        out \o _write_frame(FRAME_SIGNATURE, payload.val, flags)))

write_ptcbin(base, dicts, signatures) ==
    With(FLAG_HAS_CRC32 + FLAG_HAS_LENGTH + FLAG_BITPACK_E + FLAG_DELTA_P, LAMBDA flags :
        With(pack_vb(VERSION, base), LAMBDA vb :
            IF ~vb.ok THEN WriteResult(FALSE, vb.err, None)
            ELSE With({n \in DOMAIN signatures :
                        \/ \A i \in DOMAIN dicts : dicts[i].dict_id # signatures[n].dict_id
                        \/ signatures[n].sig.base # base},
                      LAMBDA bad :
                IF bad # {}
                THEN With(signatures[CHOOSE n \in bad : \A j \in bad : n <= j], LAMBDA ds :
                        IF \A i \in DOMAIN dicts : dicts[i].dict_id # ds.dict_id
                        THEN WriteResult(FALSE, "UnknownDictId", None)
                        ELSE WriteResult(FALSE, "BaseMismatch", None))
                ELSE write_signatures(dicts, signatures, 1, flags,
                        MAGIC \o <<vb.val, flags>>
                            \o Concat([i \in DOMAIN dicts |->
                                  _write_frame(FRAME_TOWER_DICT,
                                               tower_dict_payload(dicts[i]), flags)])))))

PTCBinHeader(version, base, flags) ==
    [version |-> version, base |-> base, flags |-> flags]

PTCBinFile(header, dicts, signatures) ==
    [header |-> header, dicts |-> dicts, signatures |-> signatures]

\* dicts[td.dict_id] = td on a Python dict held as a function from ids
DictPut(dicts, td) ==
    [id \in (DOMAIN dicts) \cup {td.dict_id} |->
        IF id = td.dict_id THEN td ELSE dicts[id]]

\* the for loop of _decode_tower_dict_payload: k more varints from offset off
RECURSIVE decode_deltas(_, _, _, _)
decode_deltas(payload, off, k, deltas) ==
    IF k = 0 THEN Ok(deltas)
    ELSE Try(uleb128_decode_from(payload, off), LAMBDA v :
            decode_deltas(payload, v[2], k - 1, Append(deltas, v[1])))

_decode_tower_dict_payload(payload) ==
    Try(uleb128_decode_from(payload, 0), LAMBDA id :
        Try(uleb128_decode_from(payload, id[2]), LAMBDA k :
            IF k[1] <= 0 THEN Err("InvalidK")
            ELSE Try(decode_deltas(payload, k[2], k[1], <<>>), LAMBDA deltas :
                    Try(delta_decode_primes(deltas), LAMBDA primes :
                        IF Len(primes) # k[1] THEN Err("LengthMismatch")
                        ELSE TowerDict(id[1], primes)))))

\* the last loop of _decode_signature_payload: clocks from primes, flags, exponents
RECURSIVE decode_clocks(_, _, _, _, _)
decode_clocks(primes, z_flags, es, n, e_i) ==
    IF n > Len(primes) THEN <<>>
    ELSE IF z_flags[n]
    THEN <<ClockRec(primes[n], TRUE, None)>>
             \o decode_clocks(primes, z_flags, es, n + 1, e_i)
    ELSE <<ClockRec(primes[n], FALSE, Some(es[e_i + 1]))>>
             \o decode_clocks(primes, z_flags, es, n + 1, e_i + 1)

\* mutant of _decode_signature_payload: a signature over an unregistered
\* dictionary is read as a signature without clocks
_decode_signature_payload_any_dict(payload, header, dicts) ==
    Try(uleb128_decode_from(payload, 0), LAMBDA id :
        IF id[1] \notin DOMAIN dicts
        THEN Ok(DecodedSignature(id[1], PTCSig(header.base, <<>>)))
        ELSE With(dicts[id[1]], LAMBDA td :
            With(id[2] + ((Len(td.primes) + 7) \div 8), LAMBDA off :
                IF off > Len(payload) THEN Err("PayloadTooShort")
                ELSE Try(_unpack_z_bitmap(td.primes, Slice(payload, id[2], off)),
                         LAMBDA z_flags :
                    Try(_bitunpack_es(td.primes, z_flags,
                                      Slice(payload, off, Len(payload))),
                        LAMBDA es :
                            Ok(DecodedSignature(id[1],
                                  PTCSig(header.base,
                                         decode_clocks(td.primes, z_flags, es, 1, 0)))))))))

_decode_signature_payload(payload, header, dicts) ==
    Try(uleb128_decode_from(payload, 0), LAMBDA id :
        IF id[1] \notin DOMAIN dicts THEN Err("UnknownDictId")
        ELSE With(dicts[id[1]], LAMBDA td :
            With(id[2] + ((Len(td.primes) + 7) \div 8), LAMBDA off :
                IF off > Len(payload) THEN Err("PayloadTooShort")
                ELSE Try(_unpack_z_bitmap(td.primes, Slice(payload, id[2], off)),
                         LAMBDA z_flags :
                    Try(_bitunpack_es(td.primes, z_flags,
                                      Slice(payload, off, Len(payload))),
                        LAMBDA es :
                            Ok(DecodedSignature(id[1],
                                  PTCSig(header.base,
                                         decode_clocks(td.primes, z_flags, es, 1, 0)))))))))

\* the inner while loop of read_ptcbin: the offset after the length varint
\* that starts at offset i
RECURSIVE read_len_raw(_, _)
read_len_raw(data, i) ==
    IF i >= Len(data) THEN Err("UnexpectedEOF")
    ELSE IF data[i + 1] < 128 THEN Ok(i + 1)
    ELSE read_len_raw(data, i + 1)

\* mutant of read_frame: the checksum is read but not compared
read_frame_unchecked(data, pos) ==
    Try(read_len_raw(data, pos + 1), LAMBDA len_end :
        Try(uleb128_decode_from(Slice(data, pos + 1, len_end), 0), LAMBDA payload_len :
            IF len_end + payload_len[1] > Len(data) THEN Err("UnexpectedEOF")
            ELSE With(len_end + payload_len[1], LAMBDA crc_at :
                IF crc_at + 4 > Len(data) THEN Err("UnexpectedEOF")
                ELSE Ok([frame_type |-> data[pos + 1],
                         payload |-> Slice(data, len_end, crc_at),
                         next |-> crc_at + 4]))))

\* one frame at offset pos: type, length, payload and checksum, as read and
\* verified by the body of the while loop of read_ptcbin
read_frame(data, pos) ==
    Try(read_len_raw(data, pos + 1), LAMBDA len_end :
        Try(uleb128_decode_from(Slice(data, pos + 1, len_end), 0), LAMBDA payload_len :
            IF len_end + payload_len[1] > Len(data) THEN Err("UnexpectedEOF")
            ELSE With(len_end + payload_len[1], LAMBDA crc_at :
                IF crc_at + 4 > Len(data) THEN Err("UnexpectedEOF")
                ELSE IF crc32_be(Slice(data, pos, crc_at)) # Slice(data, crc_at, crc_at + 4)
                THEN Err("CRC32Mismatch")
                ELSE Ok([frame_type |-> data[pos + 1],
                         payload |-> Slice(data, len_end, crc_at),
                         next |-> crc_at + 4]))))

\* the while loop of read_ptcbin, were a frame cut short by the end of the
\* file taken as the end of the stream
RECURSIVE read_frames_lenient(_, _, _, _, _)
read_frames_lenient(data, pos, header, dicts, signatures) ==
    IF pos >= Len(data) \/ read_frame(data, pos) = Err("UnexpectedEOF")
    THEN Ok(PTCBinFile(header, dicts, signatures))
    ELSE Try(read_frame(data, pos), LAMBDA fr :
        IF fr.frame_type = FRAME_END THEN Ok(PTCBinFile(header, dicts, signatures))
        ELSE IF fr.frame_type = FRAME_TOWER_DICT
        THEN Try(_decode_tower_dict_payload(fr.payload), LAMBDA td :
                read_frames_lenient(data, fr.next, header, DictPut(dicts, td), signatures))
        ELSE IF fr.frame_type = FRAME_SIGNATURE
        THEN Try(_decode_signature_payload(fr.payload, header, dicts), LAMBDA ds :
                read_frames_lenient(data, fr.next, header, dicts, Append(signatures, ds)))
        ELSE Err("UnknownFrameType"))

\* the while loop of read_ptcbin from offset pos on
RECURSIVE read_frames(_, _, _, _, _)
read_frames(data, pos, header, dicts, signatures) ==
    IF pos >= Len(data) THEN Ok(PTCBinFile(header, dicts, signatures))
    ELSE Try(read_frame(data, pos), LAMBDA fr :
        IF fr.frame_type = FRAME_END THEN Ok(PTCBinFile(header, dicts, signatures))
        ELSE IF fr.frame_type = FRAME_TOWER_DICT
        THEN Try(_decode_tower_dict_payload(fr.payload), LAMBDA td :
                read_frames(data, fr.next, header, DictPut(dicts, td), signatures))
        ELSE IF fr.frame_type = FRAME_SIGNATURE
        THEN Try(_decode_signature_payload(fr.payload, header, dicts), LAMBDA ds :
                read_frames(data, fr.next, header, dicts, Append(signatures, ds)))
        ELSE Err("UnknownFrameType"))

read_ptcbin(data) ==
    IF Len(data) < 3 THEN Err("UnexpectedEOF")
    ELSE IF SubSeq(data, 1, 3) # MAGIC THEN Err("BadMagic")
    ELSE IF Len(data) < 5 THEN Err("UnexpectedEOF")
    ELSE With(unpack_vb(data[4]), LAMBDA vb :
        IF vb[1] # VERSION THEN Err("UnsupportedVersion")
        ELSE IF ~HasFlag(data[5], FLAG_HAS_LENGTH) THEN Err("NoLength")
        ELSE IF ~HasFlag(data[5], FLAG_HAS_CRC32) THEN Err("NoCRC32")
        ELSE IF ~HasFlag(data[5], FLAG_BITPACK_E) THEN Err("NoBitpackE")
        ELSE read_frames(data, 5, PTCBinHeader(vb[1], vb[2], data[5]), <<>>, <<>>))

(***************************************************************************)
(* Specification of the delta encoding of prime lists.                     *)
(***************************************************************************)
\* the strictly ascending sequences over S of length at most n
AscSeqs(S, n) ==
    {s \in UNION {[1..k -> S] : k \in 0..n} :
        \A i \in 1..(Len(s) - 1) : s[i] < s[i + 1]}

DeltaInit ==
    /\ pc = "start"
    /\ delta_in \in AscSeqs({q \in 3..MaxDeltaP : IsPrime(q)}, MaxDeltaLen)
    /\ deltas_out = Err("none")
    /\ primes_out = Err("none")
    /\ IdleExcept("delta")

DeltaEncode ==
    /\ pc = "start"
    /\ deltas_out' = delta_encode_primes(delta_in)
    /\ pc' = IF deltas_out'.ok THEN "encoded" ELSE "failed"
    /\ UNCHANGED <<delta_in, primes_out>> /\ Frame("delta")

DeltaDecode ==
    /\ pc = "encoded"
    /\ primes_out' = delta_decode_primes(deltas_out.val)
    /\ pc' = "decoded"
    /\ UNCHANGED <<delta_in, deltas_out>> /\ Frame("delta")

DeltaNext == DeltaEncode \/ DeltaDecode

DeltaSpec == DeltaInit /\ [][DeltaNext]_vars

\* C8: delta-encoding invertibility. For every non-empty strictly ascending
\* prime sequence, encoding succeeds, its first term is p_0, every later term
\* is the positive difference p_i - p_(i-1), and decoding the encoded list
\* returns the sequence itself.
C8_DeltaRoundTrip ==
    delta_in # <<>> =>
        /\ pc # "failed"
        /\ pc \in {"encoded", "decoded"} =>
             /\ deltas_out.ok
             /\ Len(deltas_out.val) = Len(delta_in)
             /\ deltas_out.val[1] = delta_in[1]
             /\ \A i \in 2..Len(delta_in) :
                    /\ deltas_out.val[i] = delta_in[i] - delta_in[i - 1]
                    /\ deltas_out.val[i] > 0
        /\ pc = "decoded" => primes_out = Ok(delta_in)

C8_Witness ==
    /\ pc = "decoded"
    /\ delta_in = <<7, 19, 31>>
    /\ deltas_out = Ok(<<7, 12, 12>>)
    /\ primes_out = Ok(<<7, 19, 31>>)

(***************************************************************************)
(* Specification of the PTC-bin codec: a file is written, then read back.  *)
(***************************************************************************)
\* the towers of the dictionaries
CodecTowers == {<<19, 61>>, <<61, 101, 131>>}

\* the bases of the files and of the signatures; 16 does not fit the header
CodecBases == {2, 10, 16}

\* the clock lists over a tower, one clock per prime, ascending: every mix of
\* zero markers and largest exponents p-2, and the list whose exponents 2p+2
\* all lie beyond their clocks (load_signature_jsonl accepts every e >= 0)
ClockLists(primes) ==
    {[i \in DOMAIN primes |->
        IF i \in Z THEN ClockRec(primes[i], TRUE, None)
        ELSE ClockRec(primes[i], FALSE, Some(primes[i] - 2))] : Z \in SUBSET DOMAIN primes}
    \cup {[i \in DOMAIN primes |-> ClockRec(primes[i], FALSE, Some((2 * primes[i]) + 2))]}

\* the dictionary lists: distinct towers, numbered from 1 as TowerRegistry does
DictLists ==
    {[i \in DOMAIN ts |-> TowerDict(i, ts[i]).val] :
        ts \in {t \in UNION {[1..k -> CodecTowers] : k \in 0..MaxDicts} :
                   \A i, j \in DOMAIN t : i # j => t[i] # t[j]}}

\* the signatures that may accompany the dictionaries ds: over a listed tower
\* with its id, or over an unlisted tower with an id no dictionary has
SigChoices(ds, b) ==
    UNION {{DecodedSignature(
                IF \E i \in DOMAIN ds : ds[i].primes = t
                THEN (CHOOSE i \in DOMAIN ds : ds[i].primes = t)
                ELSE Len(ds) + 1,
                PTCSig(b, cl)) : cl \in ClockLists(t)} : t \in CodecTowers}

CodecInit ==
    /\ pc = "start"
    /\ in_base \in CodecBases
    /\ in_dicts \in DictLists
    /\ \E b \in {2, in_base} :
          in_sigs \in UNION {[1..k -> SigChoices(in_dicts, b)] : k \in 0..MaxSigs}
    /\ disk = None
    /\ written = Err("none")
    /\ hit = None
    /\ readback = Err("none")
    /\ IdleExcept("codec")

\* write_ptcbin(path, base, dicts, signatures)
Write ==
    /\ pc = "start"
    /\ \E w \in {write_ptcbin(in_base, in_dicts, in_sigs)} :
        /\ disk' = w.file
        /\ written' = IF w.ok THEN Ok(TRUE) ELSE Err(w.err)
        /\ pc' = IF w.ok THEN "written" ELSE "write_failed"
    /\ UNCHANGED <<in_base, in_dicts, in_sigs, hit, readback>> /\ Frame("codec")

\* read_ptcbin(path) of the file on disk
Read ==
    /\ pc \in {"written", "write_failed", "corrupted"}
    /\ disk # None
    /\ readback' = read_ptcbin(disk[1])
    /\ pc' = "read"
    /\ UNCHANGED <<in_base, in_dicts, in_sigs, disk, written, hit>> /\ Frame("codec")

CodecNext == Write \/ Read

CodecSpec == CodecInit /\ [][CodecNext]_vars

\* the (p, z, e) triples of a clock list in ascending-p order
Triples(clocks) ==
    [n \in DOMAIN clocks |->
        <<SortByP(clocks)[n].p, SortByP(clocks)[n].z, SortByP(clocks)[n].e>>]

\* C6 as stated: codec round-trip. For every base, dictionary list and
\* signature list that write_ptcbin accepts, read_ptcbin of the written file
\* returns the same base, the same dict_id -> primes mapping, and the
\* signatures in the same order, each with the input's (p, z, e) triples in
\* ascending-p order.
C6_CodecRoundTrip ==
    (pc = "read" /\ written.ok /\ hit = None) =>
        /\ readback.ok
        /\ readback.val.header.base = in_base
        /\ DOMAIN readback.val.dicts = {in_dicts[i].dict_id : i \in DOMAIN in_dicts}
        /\ \A i \in DOMAIN in_dicts :
               readback.val.dicts[in_dicts[i].dict_id].primes = in_dicts[i].primes
        /\ Len(readback.val.signatures) = Len(in_sigs)
        /\ \A n \in DOMAIN in_sigs :
               /\ readback.val.signatures[n].dict_id = in_sigs[n].dict_id
               /\ readback.val.signatures[n].sig.base = in_sigs[n].sig.base
               /\ Triples(readback.val.signatures[n].sig.clocks)
                      = Triples(in_sigs[n].sig.clocks)

(***************************************************************************)
(* Specification of a damaged file: one byte of a frame body of a written  *)
(* file is changed before the file is read.                                *)
(***************************************************************************)
\* the frames of a well-formed file from offset pos on, as _write_frame laid
\* them out: offsets of the type byte, of the payload and of the checksum,
\* with the type and the payload
RECURSIVE FrameLayout(_, _)
FrameLayout(data, pos) ==
    IF pos >= Len(data) THEN <<>>
    ELSE With(read_frame(data, pos).val, LAMBDA fr :
            <<[at |-> pos, payload_at |-> fr.next - 4 - Len(fr.payload),
               crc_at |-> fr.next - 4, frame_type |-> fr.frame_type,
               payload |-> fr.payload]>> \o FrameLayout(data, fr.next))

\* the offsets of the body of frame fr, by the part they belong to
BodyOffsets(fr) ==
    [type |-> {fr.at},
     length |-> (fr.at + 1)..(fr.payload_at - 1),
     payload |-> fr.payload_at..(fr.crc_at - 1)]

CorruptInit ==
    /\ pc = "start"
    /\ in_base = 2
    /\ in_dicts \in {ds \in DictLists : Len(ds) = 1}
    /\ in_sigs \in {<<>>} \cup {<<s>> : s \in {x \in SigChoices(in_dicts, 2) : x.dict_id = 1}}
    /\ disk = None
    /\ written = Err("none")
    /\ hit = None
    /\ readback = Err("none")
    /\ IdleExcept("codec")

\* one byte of a frame body of the written file takes another value
Corrupt ==
    /\ pc = "written"
    /\ \E layout \in {FrameLayout(disk[1], 5)} :
        \E n \in DOMAIN layout, part \in {"type", "length", "payload"} :
            \E pos \in BodyOffsets(layout[n])[part] :
                \E v \in (0..255) \ {disk[1][pos + 1]} :
                    /\ disk' = Some([disk[1] EXCEPT ![pos + 1] = v])
                    /\ hit' = Some([at |-> pos, part |-> part])
    /\ pc' = "corrupted"
    /\ UNCHANGED <<in_base, in_dicts, in_sigs, written, readback>> /\ Frame("codec")

CorruptNext == Write \/ Corrupt \/ Read

CorruptSpec == CorruptInit /\ [][CorruptNext]_vars

_tower_key(sg) == [n \in DOMAIN sg.clocks |-> SortByP(sg.clocks)[n].p]

\* counts[dict_id] += 1 on a Counter held as a function
CounterAdd(counts, k) ==
    DictSet(counts, k, IF k \in DOMAIN counts THEN counts[k] + 1 ELSE 1)

\* the loop `for p in jsonl_paths` of pack_jsonl_to_ptcbin from input n on;
\* st holds registry, sigs, base and counts
RECURSIVE pack_loop(_, _, _)
pack_loop(loaded, n, st) ==
    IF n > Len(loaded) THEN Ok(st)
    ELSE IF st.base # None /\ loaded[n].base # st.base[1] THEN Err("MixedBases")
    ELSE With(intern(st.registry, _tower_key(loaded[n])), LAMBDA r :
            IF ~r.ret.ok THEN r.ret
            ELSE pack_loop(loaded, n + 1,
                    [registry |-> r.reg,
                     sigs |-> Append(st.sigs, DecodedSignature(r.ret.val, loaded[n])),
                     base |-> Some(loaded[n].base),
                     counts |-> CounterAdd(st.counts, r.ret.val)]))

\* pack_jsonl_to_ptcbin(jsonl_paths, out_path), the files at the paths holding
\* the signatures `loaded`: the call of write_ptcbin made, if any, the file it
\* left, and the counts returned or the error raised
pack_jsonl_to_ptcbin(loaded) ==
    IF loaded = <<>> THEN [call |-> None, file |-> None, ret |-> Err("NoInputPaths")]
    ELSE With(pack_loop(loaded, 1, [registry |-> TowerRegistry, sigs |-> <<>>,
                                    base |-> None, counts |-> <<>>]),
              LAMBDA st :
        IF ~st.ok THEN [call |-> None, file |-> None, ret |-> st]
        ELSE With(write_ptcbin(st.val.base[1], all_dicts(st.val.registry), st.val.sigs),
                  LAMBDA w :
                [call |-> Some([base |-> st.val.base[1],
                                dicts |-> all_dicts(st.val.registry),
                                signatures |-> st.val.sigs]),
                 file |-> w.file,
                 ret |-> IF w.ok THEN Ok(st.val.counts) ELSE Err(w.err)]))

(***************************************************************************)
(* Specification of packing: signatures are packed, the file is read back. *)
(***************************************************************************)
PackTowers == CodecTowers \cup {<<131>>}

\* the signatures load_signature_jsonl returned: over a tower, with the
\* largest exponents, the first clock possibly a zero marker
LoadedSigs ==
    {PTCSig(b, [i \in DOMAIN t |->
                  IF i = 1 /\ z THEN ClockRec(t[i], TRUE, None)
                  ELSE ClockRec(t[i], FALSE, Some(t[i] - 2))]) :
        b \in {2, 16}, t \in PackTowers, z \in BOOLEAN}

PackInit ==
    /\ pc = "start"
    /\ jsonl \in UNION {[1..k -> LoadedSigs] : k \in 0..MaxPaths}
    /\ pack_out = Err("none")
    /\ unpacked = Err("none")
    /\ in_base = 0 /\ in_dicts = <<>> /\ in_sigs = <<>> /\ disk = None
    /\ written = Err("none") /\ hit = None /\ readback = Err("none")
    /\ IdleExcept("pack")

\* pack_jsonl_to_ptcbin(jsonl_paths, out_path)
Pack ==
    /\ pc = "start"
    /\ \E r \in {pack_jsonl_to_ptcbin(jsonl)} :
        /\ pack_out' = r.ret
        /\ disk' = r.file
        /\ IF r.call = None
           THEN UNCHANGED <<in_base, in_dicts, in_sigs, written>>
           ELSE /\ in_base' = r.call[1].base
                /\ in_dicts' = r.call[1].dicts
                /\ in_sigs' = r.call[1].signatures
                /\ written' = IF r.ret.ok THEN Ok(TRUE) ELSE Err(r.ret.err)
        /\ pc' = IF r.ret.ok THEN "written" ELSE "write_failed"
    /\ UNCHANGED <<jsonl, unpacked, hit, readback>>
    /\ UNCHANGED <<towerVars, dlogVars, niceVars, deltaVars, selVars, cliVars, kernelVars,
                 registryVars, loadVars>>

PackNext == Pack \/ Read

PackSpec == PackInit /\ [][PackNext]_vars

\* the TOWER_DICT entries of a well-formed file, in file order
DictEntries(data) ==
    [n \in DOMAIN SelectSeq(FrameLayout(data, 5), LAMBDA fr : fr.frame_type = FRAME_TOWER_DICT) |->
        _decode_tower_dict_payload(
            SelectSeq(FrameLayout(data, 5),
                      LAMBDA fr : fr.frame_type = FRAME_TOWER_DICT)[n].payload).val]

\* the dict_ids the SIGNATURE frames of a well-formed file refer to, in file order
SigRefs(data) ==
    [n \in DOMAIN SelectSeq(FrameLayout(data, 5), LAMBDA fr : fr.frame_type = FRAME_SIGNATURE) |->
        uleb128_decode_from(
            SelectSeq(FrameLayout(data, 5),
                      LAMBDA fr : fr.frame_type = FRAME_SIGNATURE)[n].payload, 0).val[1]]

\* the sum of the values of a Counter
RECURSIVE CounterTotal(_)
CounterTotal(counts) ==
    IF DOMAIN counts = {} THEN 0
    ELSE LET k == CHOOSE x \in DOMAIN counts : TRUE
         IN  counts[k] + CounterTotal([x \in (DOMAIN counts) \ {k} |-> counts[x]])

\* C9: dictionary packing. A successful pack_jsonl_to_ptcbin writes exactly
\* one TOWER_DICT entry per distinct tower (ascending prime tuple) among the
\* inputs, with pairwise distinct dict_ids; every written signature refers to
\* the entry whose primes are its own ascending primes; the returned counts
\* give, per dict_id, the number of signatures referring to it, and sum to the
\* number of inputs.
C9_DictionaryPacking ==
    (pack_out.ok /\ pc \in {"written", "read"}) =>
        LET entries == DictEntries(disk[1])
            refs == SigRefs(disk[1])
        IN  /\ Len(entries) = Cardinality({_tower_key(jsonl[n]) : n \in DOMAIN jsonl})
            /\ {entries[i].primes : i \in DOMAIN entries}
                   = {_tower_key(jsonl[n]) : n \in DOMAIN jsonl}
            /\ \A i, j \in DOMAIN entries :
                   i # j => entries[i].dict_id # entries[j].dict_id
            /\ Len(refs) = Len(jsonl)
            /\ \A n \in DOMAIN jsonl :
                   \E i \in DOMAIN entries :
                       /\ entries[i].dict_id = refs[n]
                       /\ entries[i].primes = _tower_key(jsonl[n])
            /\ DOMAIN pack_out.val = {entries[i].dict_id : i \in DOMAIN entries}
            /\ \A id \in DOMAIN pack_out.val :
                   pack_out.val[id] = Cardinality({n \in DOMAIN refs : refs[n] = id})
            /\ CounterTotal(pack_out.val) = Len(jsonl)

C9_Witness ==
    /\ pc = "read"
    /\ Len(jsonl) = 2
    /\ _tower_key(jsonl[1]) = <<61, 101, 131>>
    /\ _tower_key(jsonl[2]) = <<19, 61>>
    /\ pack_out = Ok(<<1, 1>>)
    /\ readback.ok
    /\ readback.val.signatures[1].dict_id = 1
    /\ readback.val.signatures[2].dict_id = 2
    /\ readback.val.dicts[2].primes = <<19, 61>>

(***************************************************************************)
(* Specification of the selection of a tower.                              *)
(***************************************************************************)
SelRanges == {<<lo, hi>> : lo \in {2, 11}, hi \in {5, 13, MaxSelP \div 2, MaxSelP}}

\* the lists of allowed small primes: distinct primes, in any order
SelSmooth == {<<>>} \cup InjSeqs({2, 3, 5}, 3)

SelInit ==
    /\ pc = "start"
    /\ sel_D \in 0..MaxD
    /\ sel_anchor \in (2..MaxAnchor) \cup {DEFAULT_ANCHOR}
    /\ sel_smooth \in SelSmooth
    /\ sel_range \in SelRanges
    /\ sel_out = Err("none")
    /\ gen_limit = 0 /\ gen_prefer = FALSE /\ gen_out = Err("none")
    /\ IdleExcept("sel")

\* choose_orologi_for_digits(D, anchor, smooth_primes, min_p, max_p)
Choose ==
    /\ pc = "start"
    /\ sel_out' = choose_orologi_for_digits(sel_D, sel_anchor, sel_smooth,
                                            sel_range[1], sel_range[2])
    /\ pc' = IF sel_out'.ok THEN "chosen" ELSE "failed"
    /\ UNCHANGED <<sel_D, sel_anchor, sel_smooth, sel_range, gen_limit, gen_prefer, gen_out>>
    /\ Frame("sel")

SelSpec == SelInit /\ [][Choose]_vars

\* a dict held as a sequence of <<key, value>>, as the set of its items
Items(fac) == {fac[n] : n \in DOMAIN fac}

\* C10: tower selection result. With D > 0, choose_orologi_for_digits either
\* fails (anchor not nice, or prime pool exhausted) or returns a list whose
\* first element is the anchor, whose primes are pairwise distinct, each nice
\* and paired with a factor map equal to factor_smooth(p-1), and whose product
\* is > 10^D.
C10_SelectionResult ==
    (pc # "start" /\ sel_D > 0) =>
        /\ ~sel_out.ok => sel_out.err \in {"AnchorNotNice", "InsufficientPrimePool"}
        /\ sel_out.ok =>
            /\ sel_out.val # <<>>
            /\ sel_out.val[1][1] = sel_anchor
            /\ \A i, j \in DOMAIN sel_out.val :
                   i # j => sel_out.val[i][1] # sel_out.val[j][1]
            /\ \A i \in DOMAIN sel_out.val :
                   /\ IsNice(sel_out.val[i][1], sel_smooth)
                   /\ nice_prime_info(sel_out.val[i][1], sel_smooth) # None
                   /\ Items(sel_out.val[i][2])
                          = Items(factor_smooth(sel_out.val[i][1] - 1, sel_smooth)[1])
                   /\ factor_smooth(sel_out.val[i][1] - 1, sel_smooth)[2] = 1
            /\ SeqProd([i \in DOMAIN sel_out.val |-> sel_out.val[i][1]]) > Pow(10, sel_D)

C10_Witness ==
    /\ pc = "chosen"
    /\ sel_D = 3 /\ sel_anchor = 61 /\ sel_smooth = <<2, 3, 5>> /\ sel_range = <<2, 13>>
    /\ sel_out = Ok(<<<<61, <<<<2, 2>>, <<3, 1>>, <<5, 1>>>>>>,
                      <<13, <<<<2, 2>>, <<3, 1>>>>>>,
                      <<11, <<<<2, 1>>, <<5, 1>>>>>>>>)

\* the primes of a chosen list, in order
ChosenPrimes(ch) == [i \in DOMAIN ch |-> ch[i][1]]

\* C11: selection stops as soon as the running product exceeds the target.
\* In every returned list the product of every proper prefix is <= 10^D; in
\* particular, when the anchor alone exceeds 10^D the list is just the anchor.
C11_StopsAsSoonAsOverTarget ==
    (pc = "chosen" /\ sel_D > 0) =>
        /\ \A k \in 1..(Len(sel_out.val) - 1) :
               SeqProd(SubSeq(ChosenPrimes(sel_out.val), 1, k)) <= Pow(10, sel_D)
        /\ sel_anchor > Pow(10, sel_D) => Len(sel_out.val) = 1

(***************************************************************************)
(* Command line: main resolves the clock strategy from the preset and the  *)
(* overrides, then asks compute_tower_signature for the signature of N.    *)
(***************************************************************************)
DEFAULT_32BIT_MIN_P == Pow(2, 31)
DEFAULT_32BIT_MAX_P == Pow(2, 32) - 1

\* compute_tower_signature(N, anchor, smooth_primes): the tower is chosen with
\* the default range of choose_orologi_for_digits
compute_tower_signature(N, anchor, smooth_primes) ==
    IF N < 0 THEN Err("NegativeInput")
    ELSE Try(choose_orologi_for_digits(Digits(N), anchor, smooth_primes,
                                       DEFAULT_32BIT_MIN_P, DEFAULT_32BIT_MAX_P),
             LAMBDA ch : build_signature(N, ch))

\* the parameters compute_tower_signature declares
compute_tower_signature_params == {"N", "anchor", "smooth_primes"}

PresetNames == {"minimal", "fast", "safe", "fit"}

\* presets[name][col] of resolve_clock_strategy: (min_p, max_p, pool_limit,
\* prefer_large)
presets(name, col) ==
    CASE name = "minimal" ->
             (CASE col = 1 -> DEFAULT_32BIT_MIN_P [] col = 2 -> DEFAULT_32BIT_MAX_P
                [] col = 3 -> 5000 [] col = 4 -> TRUE)
      [] name = "fast" ->
             (CASE col = 1 -> 3 [] col = 2 -> 500000 [] col = 3 -> 20000 [] col = 4 -> TRUE)
      [] name = "safe" ->
             (CASE col = 1 -> 3 [] col = 2 -> 2000000 [] col = 3 -> 100000 [] col = 4 -> TRUE)
      [] name = "fit" ->
             (CASE col = 1 -> 3 [] col = 2 -> 2000000 [] col = 3 -> 50000 [] col = 4 -> FALSE)

\* resolve_clock_strategy(preset=, min_p=, max_p=, pool_limit=)
resolve_clock_strategy(preset, min_p, max_p, pool_limit) ==
    LET preset_eff == IF preset = None THEN "fit" ELSE preset[1]
        p_min == IF min_p # None THEN min_p[1] ELSE presets(preset_eff, 1)
        p_max == IF max_p # None THEN max_p[1] ELSE presets(preset_eff, 2)
        lim == IF pool_limit # None THEN pool_limit[1] ELSE presets(preset_eff, 3)
    IN  IF preset_eff \notin PresetNames THEN Err("UnknownPreset")
        ELSE IF p_min < 3 THEN Err("MinPTooSmall")
        ELSE IF p_max < p_min THEN Err("MaxPBelowMinP")
        ELSE IF lim <= 0 THEN Err("PoolLimitNotPositive")
        ELSE Ok([preset |-> preset_eff, min_p |-> p_min, max_p |-> p_max,
                 pool_limit |-> lim, prefer_large |-> presets(preset_eff, 4)])

\* the call of compute_tower_signature in main: N positionally, the rest by
\* keyword; a keyword the callee does not declare raises TypeError before the
\* body runs
main_compute(N, anchor, smooth_primes, strategy) ==
    IF {"anchor", "smooth_primes", "min_p", "max_p", "pool_limit", "prefer_large"}
           \subseteq compute_tower_signature_params
    THEN compute_tower_signature(N, anchor, smooth_primes)
    ELSE Err("TypeError")

CliOverrides == {None} \cup {Some(v) : v \in {0, 2, 3, 5, 11, 13}}

\* the 32-bit defaults of the minimal preset are taken only with both range
\* overrides given
CliInit ==
    /\ pc = "start"
    /\ cli_in \in {a \in [N : {0, 7, MaxN}, anchor : {DEFAULT_ANCHOR},
                         smooth_primes : {DEFAULT_SMOOTH_PRIMES},
                         preset : {Some(n) : n \in PresetNames},
                         min_p : CliOverrides, max_p : CliOverrides,
                         pool_limit : CliOverrides] :
                       a.preset = Some("minimal") => a.min_p # None /\ a.max_p # None}
    /\ cli_strategy = Err("none")
    /\ cli_out = Err("none")
    /\ IdleExcept("cli")

\* main: resolve_clock_strategy(preset=args.preset, min_p=..., ...)
Resolve ==
    /\ pc = "start"
    /\ cli_strategy' = resolve_clock_strategy(cli_in.preset, cli_in.min_p,
                                              cli_in.max_p, cli_in.pool_limit)
    /\ pc' = IF cli_strategy'.ok THEN "resolved" ELSE "cli_failed"
    /\ UNCHANGED <<cli_in, cli_out>> /\ Frame("cli")

\* main: sig = compute_tower_signature(N, anchor=..., ..., prefer_large=...)
Compute ==
    /\ pc = "resolved"
    /\ cli_out' = main_compute(cli_in.N, cli_in.anchor, cli_in.smooth_primes,
                               cli_strategy.val)
    /\ pc' = IF cli_out'.ok THEN "cli_done" ELSE "cli_failed"
    /\ UNCHANGED <<cli_in, cli_strategy>> /\ Frame("cli")

CliNext == Resolve \/ Compute

CliSpec == CliInit /\ [][CliNext]_vars

\* C12: bounded selection under caller control. Once main has resolved the
\* strategy (min_p, max_p, pool_limit, prefer_large), the signature it asks
\* for is built by a selection that uses those values: the call either fails
\* with the insufficient-prime-pool error or returns a tower whose primes
\* after the anchor lie in [min_p, max_p] and number at most pool_limit.
C12_SelectionUsesResolvedStrategy ==
    (cli_strategy.ok /\ pc # "resolved") =>
        /\ ~cli_out.ok => cli_out.err = "InsufficientPrimePool"
        /\ cli_out.ok =>
            /\ Len(cli_out.val.orologi) - 1 <= cli_strategy.val.pool_limit
            /\ \A i \in 2..Len(cli_out.val.orologi) :
                   /\ cli_out.val.orologi[i] >= cli_strategy.val.min_p
                   /\ cli_out.val.orologi[i] <= cli_strategy.val.max_p

(***************************************************************************)
(* Header flags: a written file is read back with each combination of the  *)
(* four feature flags in its header (the frame checksums do not cover the  *)
(* header).                                                                *)
(***************************************************************************)
AllFlags == FLAG_HAS_CRC32 + FLAG_HAS_LENGTH + FLAG_BITPACK_E + FLAG_DELTA_P

\* the flags byte of the header (offset 4) takes the value f
SetFlags ==
    /\ pc = "written"
    /\ \E f \in 0..AllFlags :
        /\ disk' = Some([disk[1] EXCEPT ![5] = f])
        /\ hit' = Some([at |-> 4, part |-> "flags"])
    /\ pc' = "corrupted"
    /\ UNCHANGED <<in_base, in_dicts, in_sigs, written, readback>> /\ Frame("codec")

FlagNext == Write \/ SetFlags \/ Read

FlagSpec == CorruptInit /\ [][FlagNext]_vars

\* C13: feature-flag gate on decode. read_ptcbin accepts a file only if all
\* four feature flags (CRC32, length prefix, bit-packed exponents,
\* delta-encoded primes) are set in its header: with any one of them cleared
\* the read fails, and it fails at the header, before any frame is processed.
C13_AllFourFlagsRequired ==
    (pc = "read" /\ hit # None /\ disk[1][5] # AllFlags) =>
        readback \in {Err("NoLength"), Err("NoCRC32"), Err("NoBitpackE"), Err("NoDeltaP")}

(***************************************************************************)
(* Frame streams: the TOWER_DICT and SIGNATURE frames of a written file    *)
(* are kept, dropped or reordered (each frame with its own checksum), and  *)
(* the stream is read.                                                     *)
(***************************************************************************)
\* the signatures of a stream: every clock a zero marker
StreamSigs(ds) ==
    {x \in SigChoices(ds, 2) : \A i \in DOMAIN x.sig.clocks : x.sig.clocks[i].z}

StreamInit ==
    /\ pc = "start"
    /\ in_base = 2
    /\ in_dicts \in DictLists
    /\ in_sigs \in UNION {[1..k -> StreamSigs(in_dicts)] : k \in 0..MaxSigs}
    /\ disk = None
    /\ written = Err("none")
    /\ hit = None
    /\ readback = Err("none")
    /\ IdleExcept("codec")

\* the bytes of a frame of the layout, checksum included
FrameBytes(data, fr) == Slice(data, fr.at, fr.crc_at + 4)

\* the frame type and the dict_id (first varint of the payload) of a frame
FrameRef(fr) ==
    [frame_type |-> fr.frame_type, dict_id |-> uleb128_decode_from(fr.payload, 0).val[1]]

\* the stream on disk becomes the header, then some of the written frames in
\* some order, then the END frame
Rearrange ==
    /\ pc = "written"
    /\ \E layout \in {FrameLayout(disk[1], 5)} :
        \E order \in {<<>>} \cup InjSeqs(1..(Len(layout) - 1), Len(layout) - 1) :
            /\ disk' = Some(SubSeq(disk[1], 1, 5)
                            \o Concat([k \in DOMAIN order |->
                                          FrameBytes(disk[1], layout[order[k]])])
                            \o FrameBytes(disk[1], layout[Len(layout)]))
            /\ hit' = Some([frames |-> [k \in DOMAIN order |-> FrameRef(layout[order[k]])]])
    /\ pc' = "corrupted"
    /\ UNCHANGED <<in_base, in_dicts, in_sigs, written, readback>> /\ Frame("codec")

StreamNext == Write \/ Rearrange \/ Read

StreamSpec == StreamInit /\ [][StreamNext]_vars

\* frame k of the stream is a SIGNATURE frame over a dict_id that no earlier
\* TOWER_DICT frame has registered
UnknownRefAt(frames, k) ==
    /\ frames[k].frame_type = FRAME_SIGNATURE
    /\ \A j \in 1..(k - 1) :
           ~(frames[j].frame_type = FRAME_TOWER_DICT /\ frames[j].dict_id = frames[k].dict_id)

\* C14: unknown dictionary references are rejected on both sides. Reading a
\* stream in which a SIGNATURE frame names a dict_id that no earlier
\* TOWER_DICT frame registered fails with the unknown-dict-id error and
\* returns nothing; write_ptcbin given a signature whose dict_id is not among
\* the supplied dictionaries fails and writes no byte.
C14_UnknownDictRejected ==
    /\ (pc = "read" /\ hit # None /\ \E k \in DOMAIN hit[1].frames : UnknownRefAt(hit[1].frames, k))
           => readback = Err("UnknownDictId")
    /\ (pc # "start" /\ \E n \in DOMAIN in_sigs :
                            \A i \in DOMAIN in_dicts : in_dicts[i].dict_id # in_sigs[n].dict_id)
           => (~written.ok /\ disk = None)

\* the signature of dictionary 1 comes before the TOWER_DICT frame that
\* registers it, and the read fails with the unknown-dict-id error
C14_Witness ==
    /\ pc = "read"
    /\ hit # None
    /\ Len(hit[1].frames) = 2
    /\ hit[1].frames[1] = [frame_type |-> FRAME_SIGNATURE, dict_id |-> 1]
    /\ hit[1].frames[2] = [frame_type |-> FRAME_TOWER_DICT, dict_id |-> 1]
    /\ readback = Err("UnknownDictId")

(***************************************************************************)
(* Registry: tuples are interned one after the other in a fresh            *)
(* TowerRegistry.                                                          *)
(***************************************************************************)
\* the tuples handed to intern: towers, an unsorted tuple, the empty tuple, a
\* tuple with an element below 3 and a tuple that repeats an element
RegTuples == PackTowers \cup {<<61, 19>>, <<>>, <<2>>, <<19, 19>>}

RegistryInit ==
    /\ pc = "start"
    /\ registry = TowerRegistry
    /\ calls = <<>>
    /\ IdleExcept("registry")

\* registry.intern(primes)
Intern ==
    /\ Len(calls) < MaxCalls
    /\ \E primes \in RegTuples :
        \E r \in {intern(registry, primes)} :
            /\ registry' = r.reg
            /\ calls' = Append(calls, [primes |-> primes, ret |-> r.ret])
            /\ pc' = IF r.ret.ok THEN "interned" ELSE "intern_failed"
    /\ Frame("registry")

RegistrySpec == RegistryInit /\ [][Intern]_vars

\* the calls among the first k that returned an id
Returned(k) == {j \in 1..k : calls[j].ret.ok}

\* the distinct tuples interned by the first k calls
Interned(k) == {calls[j].primes : j \in Returned(k)}

\* the first call that returned an id for the tuple of call k
FirstSeen(k) ==
    CHOOSE j \in Returned(k) :
        /\ calls[j].primes = calls[k].primes
        /\ \A i \in Returned(k) : calls[i].primes = calls[k].primes => j <= i

\* C15: sequential dictionary ids. After any sequence of intern calls on a
\* fresh registry the ids handed out are exactly 1..n, n being the number of
\* distinct tuples interned, in first-seen order; a tuple seen before gets its
\* original id and no new id is allocated for it.
C15_SequentialIds ==
    /\ {calls[j].ret.val : j \in Returned(Len(calls))} = 1..Cardinality(Interned(Len(calls)))
    /\ \A k \in Returned(Len(calls)) :
           calls[k].ret.val = Cardinality(Interned(FirstSeen(k)))
    /\ \A j, k \in Returned(Len(calls)) :
           calls[j].primes = calls[k].primes => calls[j].ret.val = calls[k].ret.val

(***************************************************************************)
(* Arithmetic kernel: each function is called once on arguments drawn from *)
(* a bounded set.                                                          *)
(***************************************************************************)
EgcdInit ==
    /\ pc = "start"
    /\ k_work = <<>>
    /\ k_in \in (-MaxE..MaxE) \X (-MaxE..MaxE)
    /\ k_out = Err("none")
    /\ IdleExcept("kernel")

\* egcd(a, b)
EgcdCall ==
    /\ pc = "start"
    /\ k_out' = Ok(egcd(k_in[1], k_in[2]))
    /\ pc' = "returned"
    /\ UNCHANGED <<k_in, k_work>> /\ Frame("kernel")

EgcdSpec == EgcdInit /\ [][EgcdCall]_vars

\* g is the greatest common divisor of a and b, 0 when both are 0
IsGcdOf(g, a, b) ==
    IF a = 0 /\ b = 0 THEN g = 0
    ELSE /\ g > 0
         /\ a % g = 0 /\ b % g = 0
         /\ \A d \in (g + 1)..(Abs(a) + Abs(b)) : ~(a % d = 0 /\ b % d = 0)

\* C16: extended GCD. For all integers a and b, negative and zero included,
\* egcd(a, b) returns (g, x, y) with a*x + b*y = g and g = gcd(|a|, |b|) >= 0.
C16_ExtendedGcd ==
    pc = "returned" =>
        /\ k_out.ok
        /\ (k_in[1] * k_out.val[2]) + (k_in[2] * k_out.val[3]) = k_out.val[1]
        /\ k_out.val[1] >= 0
        /\ IsGcdOf(k_out.val[1], Abs(k_in[1]), Abs(k_in[2]))

C16_Witness ==
    /\ pc = "returned"
    /\ k_in = <<-12, 0>>
    /\ k_out = Ok(<<12, -1, 0>>)

\* the sequences over S of length 0..n
SeqsUpTo(S, n) == UNION {[1..k -> S] : k \in 0..n}

\* residues below, within and beyond the moduli
CrtResidues == {-3, 2, 9}

CrtInit ==
    /\ pc = "start"
    /\ k_work = <<>>
    /\ k_in \in SeqsUpTo(CrtResidues, MaxCrtLen) \X SeqsUpTo(1..MaxMod, MaxCrtLen)
    /\ k_out = Err("none")
    /\ IdleExcept("kernel")

\* crt_many(residues, moduli)
CrtCall ==
    /\ pc = "start"
    /\ k_out' = crt_many(k_in[1], k_in[2])
    /\ pc' = IF k_out'.ok THEN "returned" ELSE "raised"
    /\ UNCHANGED <<k_in, k_work>> /\ Frame("kernel")

CrtSpec == CrtInit /\ [][CrtCall]_vars

\* no integer >= 2 divides two of the moduli
PairwiseCoprime(moduli) ==
    \A i, j \in DOMAIN moduli :
        i # j => \A d \in 2..moduli[i] : ~(moduli[i] % d = 0 /\ moduli[j] % d = 0)

PrimeInit ==
    /\ pc = "start"
    /\ k_work = <<>>
    /\ k_in \in -3..MaxPrimeN
    /\ k_out = Err("none")
    /\ IdleExcept("kernel")

\* is_probable_prime(n)
PrimeCall ==
    /\ pc = "start"
    /\ k_out' = Ok(is_probable_prime(k_in))
    /\ pc' = "returned"
    /\ UNCHANGED <<k_in, k_work>> /\ Frame("kernel")

PrimeSpec == PrimeInit /\ [][PrimeCall]_vars

\* C18: deterministic primality. For every n of the range checked (n < 2 and
\* the small primes up to 37 included) is_probable_prime(n) is true if and
\* only if n is prime: no false positive and no false negative.
C18_PrimalityExact ==
    pc = "returned" => (k_out.val <=> IsPrime(k_in))

\* 1763 = 41 * 43 passes the trial divisions and is rejected by the bases
C18_Witness ==
    /\ pc = "returned"
    /\ k_in = 1763
    /\ mr_small_loop(k_in, 1) = "continue"
    /\ k_out = Ok(FALSE)

(***************************************************************************)
(* factor_smooth run step by step: one step per test of the for loop and   *)
(* per turn of the inner while loop.                                       *)
(***************************************************************************)
SmoothInit ==
    /\ pc = "start"
    /\ k_in \in (-4..MaxSmoothN) \X SmoothChoices
    /\ k_out = Err("none")
    /\ k_work = <<>>
    /\ IdleExcept("kernel")

\* f = {}, and the for loop is entered
SmoothEnter ==
    /\ pc = "start"
    /\ k_work' = [n |-> k_in[1], i |-> 1, e |-> 0, f |-> <<>>]
    /\ pc' = "for"
    /\ UNCHANGED <<k_in, k_out>> /\ Frame("kernel")

\* the primes are exhausted or n == 1: return f, n
SmoothReturn ==
    /\ pc = "for"
    /\ k_work.i > Len(k_in[2]) \/ k_work.n = 1
    /\ k_out' = Ok(<<k_work.f, k_work.n>>)
    /\ pc' = "returned"
    /\ UNCHANGED <<k_in, k_work>> /\ Frame("kernel")

\* n % p != 0: next prime
SmoothSkip ==
    /\ pc = "for"
    /\ k_work.i <= Len(k_in[2]) /\ k_work.n # 1
    /\ k_work.n % k_in[2][k_work.i] # 0
    /\ k_work' = [k_work EXCEPT !.i = k_work.i + 1]
    /\ UNCHANGED <<pc, k_in, k_out>> /\ Frame("kernel")

\* n % p == 0: e = 0 and the while loop is entered
SmoothDivides ==
    /\ pc = "for"
    /\ k_work.i <= Len(k_in[2]) /\ k_work.n # 1
    /\ k_work.n % k_in[2][k_work.i] = 0
    /\ k_work' = [k_work EXCEPT !.e = 0]
    /\ pc' = "while"
    /\ UNCHANGED <<k_in, k_out>> /\ Frame("kernel")

\* a turn of `while n % p == 0`: n //= p; e += 1 (turns counted up to MaxSmoothN)
SmoothWhileTurn ==
    /\ pc = "while"
    /\ k_work.n % k_in[2][k_work.i] = 0
    /\ k_work.e < MaxSmoothN
    /\ k_work' = [k_work EXCEPT !.n = PyDiv(k_work.n, k_in[2][k_work.i]),
                                !.e = k_work.e + 1]
    /\ UNCHANGED <<pc, k_in, k_out>> /\ Frame("kernel")

\* the while loop ends: f[p] = e and the for loop goes on
SmoothWhileExit ==
    /\ pc = "while"
    /\ k_work.n % k_in[2][k_work.i] # 0
    /\ k_work' = [k_work EXCEPT !.f = Append(k_work.f, <<k_in[2][k_work.i], k_work.e>>),
                                !.i = k_work.i + 1]
    /\ pc' = "for"
    /\ UNCHANGED <<k_in, k_out>> /\ Frame("kernel")

SmoothNext ==
    \/ SmoothEnter
    \/ SmoothReturn
    \/ SmoothSkip
    \/ SmoothDivides
    \/ SmoothWhileTurn
    \/ SmoothWhileExit

\* the call keeps running: a step that can be taken is taken
SmoothSpec == SmoothInit /\ [][SmoothNext]_vars /\ WF_vars(SmoothNext)

\* what factor_smooth owes its caller when it returns
SmoothPost ==
    /\ k_in[1] = k_out.val[2] * FactorProduct(k_out.val[1])
    /\ \A j \in DOMAIN k_out.val[1] : k_out.val[1][j][2] >= 1
    /\ k_out.val[2] = 1 <=> (k_in[1] >= 1 /\ PrimeFactors(k_in[1]) \subseteq Range(k_in[2]))

\* C19: smooth factorization. For every n the function can be called with
\* and every allowed set of primes >= 2, factor_smooth(n, primes) terminates
\* and returns (f, rem) with n = rem * product of q^f[q], every recorded
\* exponent >= 1, and rem = 1 if and only if n is fully smooth over the set.
C19_SmoothFactorization ==
    /\ <>(pc = "returned")
    /\ [](pc = "returned" => SmoothPost)

(***************************************************************************)
(* Export: the signature built for N over a tower is converted to the      *)
(* interchange form, which carries the bit lengths of M and N.             *)
(***************************************************************************)
\* the loop of tower_to_ptcsig over sig.firme
ExportClocks(firme) ==
    [i \in DOMAIN firme |->
        IF firme[i].r = 0 \/ firme[i].e = None
        THEN ClockRec(firme[i].p, TRUE, None)
        ELSE ClockRec(firme[i].p, FALSE, firme[i].e)]

\* mutant of tower_to_ptcsig: the claim is M_bits >= N_bits
tower_to_ptcsig_or_equal(s, base) ==
    [base |-> base, clocks |-> SortByP(ExportClocks(s.firme)),
     M_bits |-> Some(BitLength(s.M)), N_bits |-> Some(BitLength(s.N)),
     lossless_claim |-> Some(BitLength(s.M) >= BitLength(s.N))]

\* tower_to_ptcsig(sig, base)
tower_to_ptcsig(s, base) ==
    [base |-> base, clocks |-> SortByP(ExportClocks(s.firme)),
     M_bits |-> Some(BitLength(s.M)), N_bits |-> Some(BitLength(s.N)),
     lossless_claim |-> Some(BitLength(s.M) > BitLength(s.N))]

\* tower_to_ptcsig(sig) of the signature built
Export ==
    /\ pc = "built"
    /\ exported' = Ok(tower_to_ptcsig(sig.val, 2))
    /\ pc' = "exported"
    /\ UNCHANGED <<inN, chosen, sig, recon>> /\ Frame("tower")

ExportNext == BuildSignature \/ Export

ExportSpec == TowerInit /\ [][ExportNext]_vars

\* C20 as stated: the lossless claim is necessary for M > N: whenever M > N
\* the claim stored by tower_to_ptcsig is true.
C20_ClaimNecessary ==
    (pc = "exported" /\ sig.val.M > sig.val.N) => exported.val.lossless_claim = Some(TRUE)

\* C20, amended: the lossless claim M_bits > N_bits stored by tower_to_ptcsig
\* is a sufficient condition for M > N: whenever the claim is true, M > N.
\* (It is not necessary: M > N also occurs with the claim false.)
C20_ClaimSufficient ==
    (pc = "exported" /\ exported.val.lossless_claim = Some(TRUE)) => sig.val.M > sig.val.N

\* N = 9 over the tower (3, 13): M = 39 of 6 bits, N of 4 bits
C20_Witness ==
    /\ pc = "exported"
    /\ inN = 9
    /\ sig.val.M = 39
    /\ exported.val.M_bits = Some(6) /\ exported.val.N_bits = Some(4)
    /\ exported.val.lossless_claim = Some(TRUE)

(***************************************************************************)
(* Reconstruction from the interchange form (reconstruct.py): the clocks   *)
(* of a PTCSig are folded by CRT in the order of the list, and the bit     *)
(* lengths of the summary decide the lossless flag.                        *)
(***************************************************************************)
RECURSIVE _egcd(_, _)
_egcd(a, b) ==
    IF b = 0 THEN <<a, 1, 0>>
    ELSE LET r == _egcd(b, PyMod(a, b))
         IN  <<r[1], r[3], r[2] - PyDiv(a, b) * r[3]>>

_inv_mod(a, m) ==
    With(_egcd(a, m),
         LAMBDA r : IF r[1] # 1 THEN Err("ValueError") ELSE Ok(PyMod(r[2], m)))

\* mutant of crt_pair of reconstruct.py: the step t is taken without the inverse
reconstruct_crt_pair_no_inverse(a1, m1, a2, m2) ==
    LET t == PyMod(a2 - a1, m2)
        a == a1 + m1 * t
    IN  Ok(<<PyMod(a, m1 * m2), m1 * m2>>)

\* crt_pair of reconstruct.py
reconstruct_crt_pair(a1, m1, a2, m2) ==
    Try(_inv_mod(PyMod(m1, m2), m2),
        LAMBDA inv :
            LET t == PyMod(PyMod(a2 - a1, m2) * inv, m2)
                a == a1 + m1 * t
            IN  Ok(<<PyMod(a, m1 * m2), m1 * m2>>))

\* the list `residues` of (r, p) pairs, one per clock in list order
clock_residues(s) ==
    [i \in DOMAIN s.clocks |->
        <<IF s.clocks[i].z THEN 0 ELSE ModPow(s.base, s.clocks[i].e[1], s.clocks[i].p),
          s.clocks[i].p>>]

\* the loop `for r, p in residues[1:]` from position i on
RECURSIVE reconstruct_fold(_, _, _, _)
reconstruct_fold(res, i, a, m) ==
    IF i > Len(res) THEN Ok(<<a, m>>)
    ELSE Try(reconstruct_crt_pair(a, m, PyMod(res[i][1], res[i][2]), res[i][2]),
             LAMBDA am : reconstruct_fold(res, i + 1, am[1], am[2]))

\* mutant of reconstruct_from_signature: lossless is M_bits >= N_bits
reconstruct_from_signature_or_equal(s) ==
    IF \E i \in DOMAIN s.clocks : ~s.clocks[i].z /\ s.clocks[i].e = None
    THEN Err("TypeError")
    ELSE IF s.clocks = <<>> THEN Err("IndexError")
    ELSE With(clock_residues(s),
              LAMBDA res :
                  Try(reconstruct_fold(res, 2, PyMod(res[1][1], res[1][2]), res[1][2]),
                      LAMBDA am :
                          Ok(<<am[1], am[2],
                               IF s.M_bits # None /\ s.N_bits # None
                               THEN s.M_bits[1] >= s.N_bits[1] ELSE FALSE>>)))

\* reconstruct_from_signature(sig): (N_mod_M, M, lossless)
reconstruct_from_signature(s) ==
    IF \E i \in DOMAIN s.clocks : ~s.clocks[i].z /\ s.clocks[i].e = None
    THEN Err("TypeError")
    ELSE IF s.clocks = <<>> THEN Err("IndexError")
    ELSE With(clock_residues(s),
              LAMBDA res :
                  Try(reconstruct_fold(res, 2, PyMod(res[1][1], res[1][2]), res[1][2]),
                      LAMBDA am :
                          Ok(<<am[1], am[2],
                               IF s.M_bits # None /\ s.N_bits # None
                               THEN s.M_bits[1] > s.N_bits[1] ELSE FALSE>>)))

\* the values a summary line may give to M_bits and to N_bits
HintBits == {None} \cup {Some(b) : b \in 0..MaxBits}

\* the exported signature comes back from a JSONL file whose summary line is
\* absent, partial, or carries other bit lengths than the written ones
LoadSummary ==
    /\ pc = "exported"
    /\ \E mb \in HintBits, nb \in HintBits :
           exported' = Ok([exported.val EXCEPT !.M_bits = mb, !.N_bits = nb])
    /\ pc' = "loaded"
    /\ UNCHANGED <<inN, chosen, sig, recon>> /\ Frame("tower")

\* reconstruct_from_signature of the signature at hand
ReconstructSig ==
    /\ pc \in {"exported", "loaded"}
    /\ recon' = reconstruct_from_signature(exported.val)
    /\ pc' = "reconstructed"
    /\ UNCHANGED <<inN, chosen, sig, exported>> /\ Frame("tower")

SigNext == BuildSignature \/ Export \/ LoadSummary \/ ReconstructSig

SigSpec == TowerInit /\ [][SigNext]_vars

\* M_bits and N_bits of the signature at hand are the bit lengths of the real M and N
MetadataDerived ==
    /\ exported.val.M_bits = Some(BitLength(sig.val.M))
    /\ exported.val.N_bits = Some(BitLength(sig.val.N))

\* C21: reconstruct_from_signature reports lossless = true only for a
\* signature that carries both M_bits and N_bits with M_bits > N_bits, and
\* when it reports true for a signature whose bit lengths are those of the
\* real M and N, the reconstructed value is N itself.
C21_LosslessByBits ==
    (pc = "reconstructed" /\ recon.ok /\ recon.val[3]) =>
        /\ exported.val.M_bits # None /\ exported.val.N_bits # None
        /\ exported.val.M_bits[1] > exported.val.N_bits[1]
        /\ (MetadataDerived => recon.val[1] = inN)

\* N = 9 over the tower (13, 3): M = 39 of 6 bits against 4, and 9 comes back
C21_Witness ==
    /\ pc = "reconstructed"
    /\ inN = 9
    /\ MetadataDerived
    /\ exported.val.clocks = <<ClockRec(3, TRUE, None), ClockRec(13, FALSE, Some(8))>>
    /\ recon = Ok(<<9, 39, TRUE>>)

(***************************************************************************)
(* JSONL interchange (ptc_jsonl.py).  A file is a sequence of lines; a     *)
(* line is blank, not JSON, JSON that is not an object, or an object.  A   *)
(* JSON value is a pair of its type and its value; Python's isinstance(v,  *)
(* int) accepts the booleans too (True == 1, False == 0).                  *)
(***************************************************************************)
JInt(n) == <<"int", n>>
JBool(b) == <<"bool", IF b THEN 1 ELSE 0>>
JStr(s) == <<"str", s>>
JNull == <<"null", 0>>

IsInt(v) == v[1] \in {"int", "bool"}
IsBool(v) == v[1] = "bool"

\* obj.get(k)
Get(obj, k) == IF k \in DOMAIN obj THEN obj[k] ELSE JNull

ObjLine(obj) == <<"object", obj>>
BlankLine == <<"blank", <<>>>>
InvalidLine == <<"invalid", <<>>>>
ArrayLine == <<"array", <<>>>>

_validate_header(obj) ==
    IF DOMAIN obj \ {"type", "version", "base", "created_utc", "note"} # {}
    THEN Err("HeaderExtraKeys")
    ELSE IF Get(obj, "type") # JStr("ptc") THEN Err("HeaderType")
    ELSE IF ~(IsInt(Get(obj, "version")) /\ Get(obj, "version")[2] = 1)
    THEN Err("HeaderVersion")
    ELSE IF ~IsInt(Get(obj, "base")) \/ Get(obj, "base")[2] < 2 THEN Err("HeaderBase")
    ELSE Ok(PTCSig(obj["base"][2], <<>>))

\* mutant of _validate_clock: an e field beside z = true is ignored
_validate_clock_ignoring_e(obj) ==
    IF DOMAIN obj \ {"p", "z", "e"} # {} THEN Err("ClockExtraKeys")
    ELSE IF "p" \notin DOMAIN obj \/ "z" \notin DOMAIN obj THEN Err("ClockMissingField")
    ELSE IF ~IsInt(obj["p"]) \/ obj["p"][2] < 3 THEN Err("ClockP")
    ELSE IF ~IsBool(obj["z"]) THEN Err("ClockZ")
    ELSE IF obj["z"][2] = 1 THEN Ok(ClockRec(obj["p"][2], TRUE, None))
    ELSE IF "e" \notin DOMAIN obj THEN Err("ClockEMissing")
    ELSE IF ~IsInt(obj["e"]) \/ obj["e"][2] < 0 THEN Err("ClockE")
    ELSE Ok(ClockRec(obj["p"][2], FALSE, Some(obj["e"][2])))

_validate_clock(obj) ==
    IF DOMAIN obj \ {"p", "z", "e"} # {} THEN Err("ClockExtraKeys")
    ELSE IF "p" \notin DOMAIN obj \/ "z" \notin DOMAIN obj THEN Err("ClockMissingField")
    ELSE IF ~IsInt(obj["p"]) \/ obj["p"][2] < 3 THEN Err("ClockP")
    ELSE IF ~IsBool(obj["z"]) THEN Err("ClockZ")
    ELSE IF obj["z"][2] = 1
    THEN IF "e" \in DOMAIN obj THEN Err("ClockEWithZ")
         ELSE Ok(ClockRec(obj["p"][2], TRUE, None))
    ELSE IF "e" \notin DOMAIN obj THEN Err("ClockEMissing")
    ELSE IF ~IsInt(obj["e"]) \/ obj["e"][2] < 0 THEN Err("ClockE")
    ELSE Ok(ClockRec(obj["p"][2], FALSE, Some(obj["e"][2])))

_validate_summary(obj) ==
    IF DOMAIN obj \ {"type", "k", "M_bits", "N_bits", "lossless_claim"} # {}
    THEN Err("SummaryExtraKeys")
    ELSE IF Get(obj, "type") # JStr("summary") THEN Err("SummaryType")
    ELSE Ok(obj)

\* summary.get(k) if summary else None, for an integer hint
SummaryHint(summary, k) ==
    IF summary = None \/ k \notin DOMAIN summary[1] THEN None ELSE Some(summary[1][k][2])

\* the loop over the lines of load_signature_jsonl from line i on, then its end
RECURSIVE load_lines(_, _, _, _, _)
load_lines(ls, i, header, clocks, summary) ==
    IF i > Len(ls)
    THEN IF header = None THEN Err("NoHeader")
         ELSE IF clocks = <<>> THEN Err("NoClocks")
         ELSE Ok([base |-> header[1].base, clocks |-> SortByP(clocks),
                  M_bits |-> SummaryHint(summary, "M_bits"),
                  N_bits |-> SummaryHint(summary, "N_bits"),
                  lossless_claim |->
                      IF SummaryHint(summary, "lossless_claim") = None THEN None
                      ELSE Some(SummaryHint(summary, "lossless_claim")[1] = 1)])
    ELSE IF ls[i][1] = "blank" THEN load_lines(ls, i + 1, header, clocks, summary)
    ELSE IF ls[i][1] = "invalid" THEN Err("InvalidJson")
    ELSE IF ls[i][1] # "object" THEN Err("NotAnObject")
    ELSE IF header = None
    THEN Try(_validate_header(ls[i][2]),
             LAMBDA h : load_lines(ls, i + 1, Some(h), clocks, summary))
    ELSE IF Get(ls[i][2], "type") = JStr("summary")
    THEN Try(_validate_summary(ls[i][2]),
             LAMBDA s : load_lines(ls, i + 1, header, clocks, Some(s)))
    ELSE Try(_validate_clock(ls[i][2]),
             LAMBDA c :
                 IF \E j \in DOMAIN clocks : clocks[j].p = c.p THEN Err("DuplicateP")
                 ELSE load_lines(ls, i + 1, header, Append(clocks, c), summary))

load_signature_jsonl(ls) == load_lines(ls, 1, None, <<>>, None)

\* the errors load_signature_jsonl raises, all of them ValueError
ValidationErrors ==
    {"HeaderExtraKeys", "HeaderType", "HeaderVersion", "HeaderBase", "ClockExtraKeys",
     "ClockMissingField", "ClockP", "ClockZ", "ClockEWithZ", "ClockEMissing", "ClockE",
     "SummaryExtraKeys", "SummaryType", "InvalidJson", "NotAnObject", "DuplicateP",
     "NoHeader", "NoClocks"}

\* the records with the fields of `keys` present or absent, valued in vals[k]
RECURSIVE Objects(_, _)
Objects(keys, vals) ==
    IF keys = {} THEN {<<>>}
    ELSE LET k == CHOOSE x \in keys : TRUE
             rest == Objects(keys \ {k}, vals)
         IN  rest \cup {[x \in DOMAIN o \cup {k} |-> IF x = k THEN v ELSE o[x]] :
                          o \in rest, v \in vals[k]}

GoodHeader == [type |-> JStr("ptc"), version |-> JInt(1), base |-> JInt(2)]

\* clock lines with p, z and e present or absent, and lines of every other kind
BodyLines ==
    {ObjLine(o) : o \in Objects({"p", "z", "e"},
                                [p |-> {JInt(3), JInt(5)}, z |-> {JBool(TRUE), JBool(FALSE)},
                                 e |-> {JInt(-1), JInt(4)}])}
    \cup {ObjLine(o) : o \in
            {[p |-> JInt(2), z |-> JBool(TRUE)], [p |-> JStr("3"), z |-> JBool(TRUE)],
             [p |-> JBool(TRUE), z |-> JBool(TRUE)], [p |-> JInt(7), z |-> JInt(1)],
             [p |-> JInt(7), z |-> JBool(FALSE), e |-> JBool(TRUE)],
             [p |-> JInt(7), z |-> JBool(FALSE), e |-> JStr("1")],
             [p |-> JInt(7), z |-> JBool(TRUE), note |-> JStr("x")],
             [type |-> JStr("summary")],
             [type |-> JStr("summary"), k |-> JInt(1), M_bits |-> JInt(3), N_bits |-> JInt(2),
              lossless_claim |-> JBool(TRUE)],
             [type |-> JStr("summary"), p |-> JInt(3)],
             GoodHeader}}
    \cup {BlankLine, InvalidLine, ArrayLine}

FirstLines ==
    {ObjLine(GoodHeader), ObjLine([GoodHeader EXCEPT !.base = JInt(1)]),
     ObjLine([p |-> JInt(3), z |-> JBool(TRUE)]), BlankLine}

LoadInit ==
    /\ pc = "start"
    /\ jsonl_lines \in {<<>>} \cup {<<h>> \o b : h \in FirstLines,
                                                b \in SeqsUpTo(BodyLines, MaxLines)}
    /\ jsonl_out = Err("none")
    /\ IdleExcept("load")

\* load_signature_jsonl(path)
Load ==
    /\ pc = "start"
    /\ jsonl_out' = load_signature_jsonl(jsonl_lines)
    /\ pc' = IF jsonl_out'.ok THEN "loaded" ELSE "rejected"
    /\ UNCHANGED jsonl_lines /\ Frame("load")

LoadSpec == LoadInit /\ [][Load]_vars

\* a line of the input holds z:true together with an e field, or z:false without e
HoldsBadClock ==
    \E i \in DOMAIN jsonl_lines :
        /\ jsonl_lines[i][1] = "object"
        /\ \/ Get(jsonl_lines[i][2], "z") = JBool(TRUE) /\ "e" \in DOMAIN jsonl_lines[i][2]
           \/ Get(jsonl_lines[i][2], "z") = JBool(FALSE) /\ "e" \notin DOMAIN jsonl_lines[i][2]

\* two lines of the input carry the same p
HoldsRepeatedP ==
    \E i, j \in DOMAIN jsonl_lines :
        /\ i < j
        /\ jsonl_lines[i][1] = "object" /\ jsonl_lines[j][1] = "object"
        /\ "p" \in DOMAIN jsonl_lines[i][2] /\ "p" \in DOMAIN jsonl_lines[j][2]
        /\ jsonl_lines[i][2]["p"] = jsonl_lines[j][2]["p"]

\* C22: load_signature_jsonl returns only signatures whose clock list is
\* non-empty and strictly ascending by p, every p >= 3, each clock either
\* z = true without exponent or z = false with an integer exponent e >= 0;
\* an input holding z:true with an e field, z:false without e, or a repeated
\* p is rejected with a validation error, and nothing is returned.
C22_InterchangeValidation ==
    pc # "start" =>
        /\ jsonl_out.ok =>
              LET cs == jsonl_out.val.clocks
              IN  /\ cs # <<>>
                  /\ \A i \in DOMAIN cs :
                        /\ cs[i].p >= 3
                        /\ i > 1 => cs[i - 1].p < cs[i].p
                        /\ \/ cs[i].z /\ cs[i].e = None
                           \/ ~cs[i].z /\ cs[i].e # None /\ cs[i].e[1] \in Nat
        /\ (HoldsBadClock \/ HoldsRepeatedP) =>
              /\ pc = "rejected" /\ ~jsonl_out.ok
              /\ jsonl_out.err \in ValidationErrors

\* a header, then the clocks of 5 and 3 out of order: loaded in ascending order
C22_Witness ==
    /\ jsonl_lines = <<ObjLine(GoodHeader),
                       ObjLine([p |-> JInt(5), z |-> JBool(FALSE), e |-> JInt(4)]),
                       ObjLine([p |-> JInt(3), z |-> JBool(TRUE)])>>
    /\ pc = "loaded"
    /\ jsonl_out.val.clocks = <<ClockRec(3, TRUE, None), ClockRec(5, FALSE, Some(4))>>

(***************************************************************************)
(* Conversion back to JSONL (ptc_convert.py, ptc_jsonl.py): the file is    *)
(* read, and every signature is dumped to a JSONL file of its own.         *)
(***************************************************************************)
\* the line of one clock written by dump_signature_jsonl
ClockLine(c) ==
    IF c.z THEN ObjLine([p |-> JInt(c.p), z |-> JBool(TRUE)])
    ELSE ObjLine([p |-> JInt(c.p), z |-> JBool(FALSE), e |-> JInt(c.e[1])])

\* the summary line: k, and the hints that are not None
SummaryLine(s) ==
    With([type |-> JStr("summary"), k |-> JInt(Len(s.clocks))], LAMBDA o0 :
    With(IF s.M_bits # None THEN DictSet(o0, "M_bits", JInt(s.M_bits[1])) ELSE o0, LAMBDA o1 :
    With(IF s.N_bits # None THEN DictSet(o1, "N_bits", JInt(s.N_bits[1])) ELSE o1, LAMBDA o2 :
         ObjLine(IF s.lossless_claim # None
                 THEN DictSet(o2, "lossless_claim", JBool(s.lossless_claim[1]))
                 ELSE o2))))

\* dump_signature_jsonl(sig, path, include_summary): the lines written;
\* created_utc and note are the strings given, "" standing for None
dump_signature_jsonl(s, created_utc, note, include_summary) ==
    With([type |-> JStr("ptc"), version |-> JInt(1), base |-> JInt(s.base)], LAMBDA h0 :
    With(IF created_utc # "" THEN DictSet(h0, "created_utc", JStr(created_utc)) ELSE h0,
         LAMBDA h1 :
    With(IF note # "" THEN DictSet(h1, "note", JStr(note)) ELSE h1, LAMBDA h2 :
         <<ObjLine(h2)>>
             \o With(SortByP(s.clocks), LAMBDA cs : [i \in DOMAIN cs |-> ClockLine(cs[i])])
             \o (IF include_summary THEN <<SummaryLine(s)>> ELSE <<>>))))

\* unpack_ptcbin_to_jsonl(in_path, out_dir): the files written, in order
unpack_ptcbin_to_jsonl(data) ==
    Try(read_ptcbin(data),
        LAMBDA f :
            Ok([i \in DOMAIN f.signatures |->
                    dump_signature_jsonl(f.signatures[i].sig, "utc_now", "Unpacked", TRUE)]))

\* loadable signatures whose exponents do not fit the bit width of their primes
ExceedingSigs ==
    {PTCSig(2, [i \in DOMAIN t |-> ClockRec(t[i], FALSE, Some(2 * t[i]))]) : t \in PackTowers}

ConvertInit ==
    /\ pc = "start"
    /\ jsonl \in UNION {[1..k -> LoadedSigs \cup ExceedingSigs] : k \in 0..MaxPaths}
    /\ pack_out = Err("none")
    /\ unpacked = Err("none")
    /\ in_base = 0 /\ in_dicts = <<>> /\ in_sigs = <<>> /\ disk = None
    /\ written = Err("none") /\ hit = None /\ readback = Err("none")
    /\ IdleExcept("pack")

\* unpack_ptcbin_to_jsonl of the file pack_jsonl_to_ptcbin wrote
Unpack ==
    /\ pc = "written"
    /\ disk # None
    /\ unpacked' = unpack_ptcbin_to_jsonl(disk[1])
    /\ pc' = "unpacked"
    /\ UNCHANGED <<jsonl, pack_out, codecVars>>
    /\ UNCHANGED <<towerVars, dlogVars, niceVars, deltaVars, selVars, cliVars, kernelVars,
                 registryVars, loadVars>>

ConvertNext == Pack \/ Unpack

ConvertSpec == ConvertInit /\ [][ConvertNext]_vars

\* C23: packing a list of loadable signatures and unpacking the file gives
\* one JSONL file per input signature, in input order, and each file loads
\* to the base and the (p, z, e) clock list of its input.
C23_ConversionRoundTrip ==
    pc = "unpacked" =>
        /\ unpacked.ok
        /\ Len(unpacked.val) = Len(jsonl)
        /\ \A i \in DOMAIN jsonl :
              /\ load_signature_jsonl(unpacked.val[i]).ok
              /\ load_signature_jsonl(unpacked.val[i]).val.base = jsonl[i].base
              /\ load_signature_jsonl(unpacked.val[i]).val.clocks = jsonl[i].clocks

(***************************************************************************)
(* Specification of the generator: generate_nice_primes_32 is called with  *)
(* a list of distinct allowed primes, a range and a limit, by a caller     *)
(* whose strategy prefers large moduli or not.                             *)
(***************************************************************************)
GenLimits == (1..MaxLimit) \cup {POOL_LIMIT}

GenInit ==
    /\ pc = "start"
    /\ sel_smooth \in SelSmooth
    /\ sel_range \in ({0, 1, 2, 3, 5, 11} \X (0..MaxGenP))
    /\ gen_limit \in GenLimits
    /\ gen_prefer \in BOOLEAN
    /\ gen_out = Err("none")
    /\ sel_D = 0 /\ sel_anchor = 0 /\ sel_out = Err("none")
    /\ IdleExcept("sel")

\* list(generate_nice_primes_32(smooth_primes, min_p, max_p, limit))
Generate ==
    /\ pc = "start"
    /\ gen_out' = Ok(generate_nice_primes_32(sel_smooth, sel_range[1], sel_range[2],
                                             gen_limit))
    /\ pc' = "generated"
    /\ UNCHANGED <<sel_D, sel_anchor, sel_smooth, sel_range, sel_out, gen_limit, gen_prefer>>
    /\ Frame("sel")

GenSpec == GenInit /\ [][Generate]_vars

\* the primes of the range that nice_prime_info accepts
NiceInRange == {p \in sel_range[1]..sel_range[2] : nice_prime_info(p, sel_smooth) # None}

\* C24: with distinct allowed primes and a limit that is not reached,
\* generate_nice_primes_32 yields exactly the primes of [min_p, max_p] that
\* nice_prime_info accepts, each once, and the factor map yielded with p is
\* the map factor_smooth(p-1, smooth) returns.
C24_GeneratorAgreesWithClassifier ==
    (pc = "generated" /\ Len(gen_out.val) < gen_limit) =>
        /\ {gen_out.val[i][1] : i \in DOMAIN gen_out.val} = NiceInRange
        /\ Len(gen_out.val) = Cardinality(NiceInRange)
        /\ \A i \in DOMAIN gen_out.val :
              Items(gen_out.val[i][2])
                  = Items(factor_smooth(gen_out.val[i][1] - 1, sel_smooth)[1])

\* allowed primes (3, 2), range [3, 13]: the primes 13, 5 and 3 with their maps
C24_Witness ==
    /\ pc = "generated"
    /\ sel_smooth = <<3, 2>> /\ sel_range = <<3, 13>> /\ gen_limit = POOL_LIMIT
    /\ Len(gen_out.val) = 3
    /\ gen_out.val[1][1] = 13 /\ Items(gen_out.val[1][2]) = {<<2, 2>>, <<3, 1>>}
    /\ gen_out.val[2][1] = 5 /\ gen_out.val[3][1] = 3


\* the primes accepted from the items of rec in the order rec appended them
GenerationOrder ==
    With(nice_primes_loop(
             smooth_rec(sel_smooth, IF sel_range[1] - 1 > 1 THEN sel_range[1] - 1 ELSE 1,
                        sel_range[2] - 1, 0, 1, <<>>).items,
             1, 0, gen_limit),
         LAMBDA out : [i \in DOMAIN out |-> out[i][1]])

\* C25: generate_nice_primes_32 returns the nice primes by p descending for a
\* caller that prefers large moduli and in generation order otherwise; it
\* produces at most `limit` primes and stops once `limit` primes have been
\* accepted, so that min(limit, number of nice primes of the range) come out.
C25_OrderingAndLimit ==
    pc = "generated" =>
        /\ Len(gen_out.val) <= gen_limit
        /\ Len(gen_out.val) = IF Cardinality(NiceInRange) < gen_limit
                              THEN Cardinality(NiceInRange) ELSE gen_limit
        /\ gen_prefer =>
              \A i \in DOMAIN gen_out.val : i > 1 => gen_out.val[i - 1][1] > gen_out.val[i][1]
        /\ ~gen_prefer =>
              [i \in DOMAIN gen_out.val |-> gen_out.val[i][1]] = GenerationOrder

(***************************************************************************)
(* Order of the frames of a written file: dictionaries and signatures are  *)
(* written, and the file is read back.                                     *)
(***************************************************************************)
\* the signatures written: all zero markers, or all largest exponents
OrderSigs(ds) ==
    {x \in SigChoices(ds, 2) :
        \/ \A i \in DOMAIN x.sig.clocks : x.sig.clocks[i].z
        \/ \A i \in DOMAIN x.sig.clocks :
              x.sig.clocks[i].e = Some(x.sig.clocks[i].p - 2)}

FrameOrderInit ==
    /\ pc = "start"
    /\ in_base = 2
    /\ in_dicts \in DictLists
    /\ in_sigs \in UNION {[1..k -> OrderSigs(in_dicts)] : k \in 0..MaxSigs}
    /\ disk = None
    /\ written = Err("none")
    /\ hit = None
    /\ readback = Err("none")
    /\ IdleExcept("codec")

FrameOrderSpec == FrameOrderInit /\ [][CodecNext]_vars

\* the dict_id a TOWER_DICT or SIGNATURE frame starts with
FrameDictId(fr) == uleb128_decode_from(fr.payload, 0).val[1]

\* C26: a stream written by write_ptcbin is the header, then one TOWER_DICT
\* frame per dictionary, then one SIGNATURE frame per signature in input
\* order, then one END frame, the last frame; every SIGNATURE frame refers to
\* a dictionary of an earlier frame, and reading a written file never fails
\* with an unknown dict_id.
C26_FrameOrderOnWrite ==
    /\ (pc \in {"written", "read"} /\ written.ok) =>
          /\ SubSeq(disk[1], 1, 3) = MAGIC
          /\ unpack_vb(disk[1][4]) = <<VERSION, in_base>>
          /\ With(FrameLayout(disk[1], 5), LAMBDA frames :
                /\ [n \in DOMAIN frames |-> frames[n].frame_type]
                      = [i \in DOMAIN in_dicts |-> FRAME_TOWER_DICT]
                            \o [i \in DOMAIN in_sigs |-> FRAME_SIGNATURE] \o <<FRAME_END>>
                /\ \A i \in DOMAIN in_dicts : FrameDictId(frames[i]) = in_dicts[i].dict_id
                /\ \A i \in DOMAIN in_sigs :
                      FrameDictId(frames[Len(in_dicts) + i]) = in_sigs[i].dict_id
                /\ \A n \in DOMAIN frames :
                      frames[n].frame_type = FRAME_SIGNATURE =>
                          \E k \in 1..(n - 1) :
                              /\ frames[k].frame_type = FRAME_TOWER_DICT
                              /\ FrameDictId(frames[k]) = FrameDictId(frames[n]))
    /\ pc = "read" => (readback.ok \/ readback.err # "UnknownDictId")

\* two dictionaries and two signatures, the second dictionary used first
C26_Witness ==
    /\ pc = "read"
    /\ written.ok /\ readback.ok
    /\ Len(in_dicts) = 2
    /\ Len(in_sigs) = 2 /\ in_sigs[1].dict_id = 2 /\ in_sigs[2].dict_id = 1
    /\ SigRefs(disk[1]) = <<2, 1>>

(***************************************************************************)
(* Tower dictionaries in the system: dictionaries are constructed          *)
(* directly, tuples are interned in a registry, and the dictionaries       *)
(* constructed are written to a file that is read back.                    *)
(***************************************************************************)
\* the tuples handed to the constructor TowerDict
DictTuples == {<<19, 61>>, <<19, 19>>, <<61, 19>>, <<>>, <<2>>}

TowerDictInit ==
    /\ pc = "start"
    /\ in_base = 2 /\ in_dicts = <<>> /\ in_sigs = <<>>
    /\ disk = None
    /\ written = Err("none")
    /\ hit = None
    /\ readback = Err("none")
    /\ registry = TowerRegistry
    /\ calls = <<>>
    /\ IdleExcept("dicts")

\* TowerDict(dict_id, primes): the dictionary joins the list to be written,
\* unless the constructor raises
Construct ==
    /\ pc = "start"
    /\ Len(in_dicts) < MaxDicts
    /\ \E dict_id \in 0..MaxDicts, primes \in DictTuples :
          in_dicts' = IF TowerDict(dict_id, primes).ok
                      THEN Append(in_dicts, TowerDict(dict_id, primes).val)
                      ELSE in_dicts
    /\ UNCHANGED <<pc, in_base, in_sigs, disk, written, hit, readback>> /\ Frame("codec")

TowerDictNext == Construct \/ Intern \/ Write \/ Read

TowerDictSpec == TowerDictInit /\ [][TowerDictNext]_vars

\* the primes of a tower: non-empty, strictly ascending, all >= 3
IsTower(primes) ==
    /\ primes # <<>>
    /\ \A i \in DOMAIN primes : primes[i] >= 3
    /\ \A i \in 1..(Len(primes) - 1) : primes[i] < primes[i + 1]

\* C27: every tower dictionary in the system, constructed directly, interned
\* in a registry or decoded from a TOWER_DICT frame by read_ptcbin, holds a
\* non-empty, strictly ascending sequence of pairwise distinct primes >= 3.
C27_TowerInvariant ==
    /\ \A i \in DOMAIN in_dicts : IsTower(in_dicts[i].primes)
    /\ \A id \in DOMAIN registry.dicts : IsTower(registry.dicts[id].primes)
    /\ readback.ok => \A id \in DOMAIN readback.val.dicts : IsTower(readback.val.dicts[id].primes)


\* C28: the registry is append-only and unchanged by failures: no intern call
\* alters or removes an id -> tuple mapping, and a call that raises leaves
\* the whole registry, the next id to assign included, as it was.
C28_RegistryUnchangedByFailure ==
    [][/\ \A id \in DOMAIN registry.dicts :
             id \in DOMAIN registry'.dicts /\ registry'.dicts[id] = registry.dicts[id]
       /\ \A primes \in DOMAIN registry.by_key :
             primes \in DOMAIN registry'.by_key
                 /\ registry'.by_key[primes] = registry.by_key[primes]
       /\ (Len(calls') > Len(calls) /\ ~calls'[Len(calls')].ret.ok) => registry' = registry]_vars


(***************************************************************************)
(* Truncated files: a written file loses its tail, or gains bytes after    *)
(* its END frame, and is read back.                                        *)
(***************************************************************************)
\* the file write_ptcbin makes of the inputs
WrittenFile == write_ptcbin(in_base, in_dicts, in_sigs).file[1]

\* the offset right after frame fr
FrameEnd(fr) == fr.crc_at + 4

\* the file on disk is cut to a proper prefix of itself
Truncate ==
    /\ pc = "written"
    /\ \E cut \in 0..(Len(disk[1]) - 1) :
        /\ disk' = Some(SubSeq(disk[1], 1, cut))
        /\ hit' = Some([cut |-> cut, trailing |-> <<>>])
    /\ pc' = "corrupted"
    /\ UNCHANGED <<in_base, in_dicts, in_sigs, written, readback>> /\ Frame("codec")

\* bytes follow the END frame of the file on disk: a stray byte, or a copy of
\* one of the file's own frames
Trail ==
    /\ pc = "written"
    /\ \E layout \in {FrameLayout(disk[1], 5)} :
        \E trailing \in {<<255>>, <<FRAME_SIGNATURE>>}
                \cup {Slice(disk[1], layout[n].at, FrameEnd(layout[n])) : n \in DOMAIN layout} :
            /\ disk' = Some(disk[1] \o trailing)
            /\ hit' = Some([cut |-> Len(disk[1]), trailing |-> trailing])
    /\ pc' = "corrupted"
    /\ UNCHANGED <<in_base, in_dicts, in_sigs, written, readback>> /\ Frame("codec")

TruncNext == Write \/ Truncate \/ Trail \/ Read

TruncSpec == FrameOrderInit /\ [][TruncNext]_vars

\* the frames of layout that end at or before offset cut, END frames left out
CompleteFrames(layout, cut, frame_type) ==
    Cardinality({n \in DOMAIN layout :
        FrameEnd(layout[n]) <= cut /\ layout[n].frame_type = frame_type})

\* file holds exactly the first nd dictionaries and the first ns signatures
\* handed to write_ptcbin
HoldsWritten(file, nd, ns) ==
    /\ file.dicts = [n \in 1..nd |-> in_dicts[n]]
    /\ Len(file.signatures) = ns
    /\ \A n \in 1..ns :
        /\ file.signatures[n].dict_id = in_sigs[n].dict_id
        /\ file.signatures[n].sig.base = in_base
        /\ Triples(file.signatures[n].sig.clocks) = Triples(in_sigs[n].sig.clocks)

\* C29: truncation safety. Reading a proper prefix of a file written by
\* write_ptcbin fails with an unexpected-EOF error when the cut falls inside
\* the header or inside a frame, and succeeds when the cut falls on a frame
\* boundary, returning exactly the dictionaries and signatures of the complete
\* frames before the cut and no value different from what was written; bytes
\* located after the END frame are never processed.
C29_TruncationSafety ==
    (pc = "read" /\ hit # None) =>
        With(FrameLayout(WrittenFile, 5), LAMBDA layout :
            With(hit[1].cut, LAMBDA cut :
                IF cut = 5 \/ \E n \in DOMAIN layout : FrameEnd(layout[n]) = cut
                THEN /\ readback.ok
                     /\ HoldsWritten(readback.val,
                            CompleteFrames(layout, cut, FRAME_TOWER_DICT),
                            CompleteFrames(layout, cut, FRAME_SIGNATURE))
                ELSE readback = Err("UnexpectedEOF")))

\* a file of two dictionaries and two signatures cut right after its first
\* SIGNATURE frame reads back as one signature
C29_Witness ==
    /\ pc = "read" /\ hit # None
    /\ Len(in_dicts) = 2 /\ Len(in_sigs) = 2
    /\ hit[1].cut < Len(WrittenFile)
    /\ readback.ok
    /\ DOMAIN readback.val.dicts = {1, 2}
    /\ Len(readback.val.signatures) = 1


(***************************************************************************)
(* The two reconstructions side by side: a signature is built, exported    *)
(* to the interchange form, its clocks possibly listed in another order,   *)
(* and reconstructed from that form.                                       *)
(***************************************************************************)
\* the orders a list of n clocks may be put in
Orders(n) == {f \in [1..n -> 1..n] : \A i, j \in 1..n : i # j => f[i] # f[j]}

\* the clocks of the exported signature are listed in another order
Reorder ==
    /\ pc = "exported"
    /\ \E f \in Orders(Len(exported.val.clocks)) :
           exported' = Ok([exported.val EXCEPT
                              !.clocks = [i \in DOMAIN f |-> exported.val.clocks[f[i]]]])
    /\ pc' = "loaded"
    /\ UNCHANGED <<inN, chosen, sig, recon>> /\ Frame("tower")

PathsNext == BuildSignature \/ Export \/ Reorder \/ ReconstructSig

PathsSpec == TowerInit /\ [][PathsNext]_vars

\* C30: the two reconstruction paths agree and are order-independent. For
\* every base-2 tower signature, reconstruct_from_signature of
\* tower_to_ptcsig(sig), its clocks ascending by p or folded in any other
\* order, returns the same (N_mod_M, M) as
\* reconstruct_from_tower_signature(sig) in anchor-first order.
C30_PathsAgree ==
    pc = "reconstructed" =>
        /\ recon.ok
        /\ reconstruct_from_tower_signature(sig.val).ok
        /\ <<recon.val[1], recon.val[2]>> = reconstruct_from_tower_signature(sig.val).val

\* N = 47 over the tower (13, 5), anchor 13 first: the interchange form lists
\* 5 first, is folded 13 first again after reordering, and both give (47, 65)
C30_Witness ==
    /\ pc = "reconstructed"
    /\ inN = 47
    /\ sig.val.orologi = <<13, 5>>
    /\ exported.val.clocks[1].p = 13 /\ exported.val.clocks[2].p = 5
    /\ ~exported.val.clocks[1].z /\ ~exported.val.clocks[2].z
    /\ recon = Ok(<<47, 65, TRUE>>)

=============================================================================
